---------------------------- MODULE Spec2Model ----------------------------
(***************************************************************************)
(* Model of the agent tool-execution loop of unia (src/src/agent.rs):      *)
(* Agent::chat (one-shot) and Agent::chat_stream (streaming), together     *)
(* with the collaborators they drive: the Client (transport) and the       *)
(* MCPServer (tool executor).                                              *)
(*                                                                         *)
(* Option<T> is modelled as a sequence of length 0 (None) or 1 (Some).     *)
(* A JSON object is a record.  A Part is a record tagged by `type`.        *)
(***************************************************************************)
EXTENDS Integers, Sequences, FiniteSets, TLC

(***************************************************************************)
(* Bounds of the model.                                                    *)
(***************************************************************************)
\* largest max_iterations an Agent is configured with
MaxIter == 2
\* total number of snapshots the provider streams deliver in one run
MaxSnaps == 3

None == <<>>
Some(x) == <<x>>

(***************************************************************************)
(* model.rs: Part, Message, Usage, Response                                *)
(***************************************************************************)
Text(content, finished) ==
    [type |-> "Text", content |-> content, finished |-> finished]

FunctionCall(id, name, arguments, finished) ==
    [type |-> "FunctionCall", id |-> id, name |-> name,
     arguments |-> arguments, signature |-> None, finished |-> finished]

FunctionResponse(id, name, response, finished) ==
    [type |-> "FunctionResponse", id |-> id, name |-> name,
     response |-> response, parts |-> <<>>, finished |-> finished]

User(parts) == [role |-> "user", parts |-> parts]

Assistant(parts) == [role |-> "assistant", parts |-> parts]

Usage(p, c) == [prompt_tokens |-> p, completion_tokens |-> c]

UsageDefault == Usage(None, None)

\* impl Add for Usage without the trailing .or(other)
AddOptLeftOnly(a, b) ==
    IF a # None
    THEN Some(a[1] + (IF b # None THEN b[1] ELSE 0))
    ELSE None

\* Option<u32> addition of impl Add for Usage:
\* a.map(|v| v + b.unwrap_or(0)).or(b)
AddOpt(a, b) ==
    IF a # None
    THEN Some(a[1] + (IF b # None THEN b[1] ELSE 0))
    ELSE b

UsageAdd(a, b) ==
    Usage(AddOpt(a.prompt_tokens, b.prompt_tokens),
          AddOpt(a.completion_tokens, b.completion_tokens))

Response(data, usage, finish) ==
    [data |-> data, usage |-> usage, finish |-> finish]

(***************************************************************************)
(* api/gemini.rs: impl From<GeminiResponse> for Response.                  *)
(* A GeminiResponse is [candidates : Option<Seq(candidate)>,               *)
(* usage_metadata : Option<...>]; a candidate is                           *)
(* [content : Option<Seq(GeminiPart)>, finish_reason : Option<String>].    *)
(***************************************************************************)
GeminiPartToPart(gp) ==
    IF gp.kind = "text"
    THEN Text(gp.text, TRUE)
    ELSE FunctionCall(None, gp.name, gp.args, TRUE)

GeminiFinish(reason) ==
    CASE reason = "STOP" -> "Stop"
      [] reason = "MAX_TOKENS" -> "OutputTokens"
      [] reason = "SAFETY" -> "ContentFilter"
      [] reason = "RECITATION" -> "ContentFilter"
      [] OTHER -> "Stop"

GeminiUsage(um) ==
    IF um = None
    THEN UsageDefault
    ELSE Usage(Some(um[1].prompt_token_count),
               Some((IF um[1].candidates_token_count # None
                     THEN um[1].candidates_token_count[1] ELSE 0)
                    + (IF um[1].thoughts_token_count # None
                       THEN um[1].thoughts_token_count[1] ELSE 0)))

FromGeminiResponse(resp) ==
    LET has == resp.candidates # None /\ resp.candidates[1] # <<>>
        cand == resp.candidates[1][1]
        parts == IF has /\ cand.content # None
                 THEN [i \in 1..Len(cand.content[1]) |->
                          GeminiPartToPart(cand.content[1][i])]
                 ELSE <<>>
        finish == IF has /\ cand.finish_reason # None
                  THEN GeminiFinish(cand.finish_reason[1])
                  ELSE "Unfinished"
    IN Response(<<Assistant(parts)>>, GeminiUsage(resp.usage_metadata), finish)

GText(t) == [kind |-> "text", text |-> t]
GCall(n) == [kind |-> "functionCall", name |-> n, args |-> [x |-> 1]]
GCand(content, reason) == [content |-> content, finish_reason |-> reason]
GUsage(p, c, t) ==
    Some([prompt_token_count |-> p, candidates_token_count |-> c,
          thoughts_token_count |-> t])

\* whole responses a Gemini endpoint may answer with
GeminiResponses ==
    { [candidates |-> Some(<<GCand(Some(<<GText("hi")>>), Some("STOP"))>>),
       usage_metadata |-> GUsage(2, Some(1), None)],
      [candidates |-> Some(<<GCand(Some(<<GText("hi")>>), None)>>),
       usage_metadata |-> None],
      [candidates |-> Some(<<GCand(Some(<<GCall("f"), GCall("g")>>), Some("STOP"))>>),
       usage_metadata |-> GUsage(2, None, Some(1))] }

(***************************************************************************)
(* The Client (transport) collaborator: what request answers with, and     *)
(* what a provider stream delivers as a snapshot.  Besides the converted   *)
(* Gemini responses: partial turns (open units), a response of two         *)
(* messages, and one with no message.                                      *)
(***************************************************************************)
Args == [x |-> 1]

OtherResponses ==
    { Response(<<Assistant(<<FunctionCall(Some("c1"), "f", Args, TRUE)>>)>>,
               Usage(Some(1), None), "ToolCalls"),
      Response(<<Assistant(<<Text("hi", FALSE),
                             FunctionCall(Some("c1"), "f", Args, FALSE)>>)>>,
               UsageDefault, "Unfinished"),
      Response(<<Assistant(<<FunctionCall(Some("c2"), "g", Args, TRUE),
                             FunctionCall(Some("c1"), "f", Args, FALSE)>>)>>,
               Usage(None, Some(1)), "ToolCalls"),
      Response(<<Assistant(<<FunctionCall(Some("c1"), "f", Args, TRUE)>>),
                 Assistant(<<Text("hi", TRUE)>>)>>,
               UsageDefault, "Stop"),
      Response(<<>>, UsageDefault, "Stop") }

Responses == { FromGeminiResponse(g) : g \in GeminiResponses } \cup OtherResponses

\* client.rs: ClientError
ClientError(variant, msg) == [variant |-> variant, msg |-> msg]

TransportErrors == { ClientError("Http", "connection reset") }

Ok(v) == [kind |-> "Ok", value |-> v]
Err(e) == [kind |-> "Err", err |-> e]

(***************************************************************************)
(* mcp.rs: MCPError and its Display (thiserror #[error("...")]), and what  *)
(* MCPServer::call_tool answers with.                                      *)
(***************************************************************************)
MCPError(variant, arg) == [variant |-> variant, arg |-> arg]

MCPErrorDisplay(e) ==
    CASE e.variant = "Mcp" -> "MCP error: " \o e.arg
      [] e.variant = "ToolNotFound" -> "Tool not found: " \o e.arg
      [] e.variant = "PromptNotFound" -> "Prompt not found: " \o e.arg
      [] e.variant = "ResourceNotFound" -> "Resource not found: " \o e.arg
      [] e.variant = "ServerNotFound" -> "Server not found: " \o e.arg
      [] OTHER -> "Server ID mismatch"

\* MCPServerImpl::call_tool: Ok(FunctionResponse { id: None, name, .. })
CallToolOk(name) ==
    Ok(FunctionResponse(None, name, [response |-> <<"done">>], TRUE))

\* call_tool succeeds, or fails: tool f by an error of the tool host
\* (MCPError::Mcp), tool g by not being found (MCPError::ToolNotFound)
ToolReplies(name) ==
    { CallToolOk(name),
      IF name = "g"
      THEN Err(MCPError("ToolNotFound", name))
      ELSE Err(MCPError("Mcp", "boom")) }

ListToolsReplies == { Ok(<<"f", "g">>), Err(MCPError("Mcp", "down")) }


(***************************************************************************)
(* State.                                                                  *)
(*   mode, max_iterations, server : the call and the Agent it is made on   *)
(*        (server: None, or Some(reply of list_tools))                     *)
(*   messages, current_response, tools, iteration : the locals of          *)
(*        chat / chat_stream that live across rounds                       *)
(*   loc : the locals of one round                                         *)
(*   pc : where the async body is suspended                                *)
(*   result : what chat returned                                           *)
(*   log : every call made on a collaborator, with its answer, and every   *)
(*        item chat_stream yielded, in order                               *)
(*   budget : snapshots the provider streams may still deliver             *)
(*   decoder : the locals of one provider stream decoder (api/*.rs)        *)
(*   input : the provider events (or values) consumed so far, in order     *)
(*   output : the items yielded (or values returned) so far, in order      *)
(***************************************************************************)
VARIABLES mode, max_iterations, server, messages, current_response, tools,
          iteration, loc, pc, result, log, budget,
          decoder, input, output

vars == <<mode, max_iterations, server, messages, current_response, tools,
          iteration, loc, pc, result, log, budget, decoder, input, output>>

\* the provider decoders of api/*.rs run inside the Client; the agent loop
\* sees only the Responses they yield
decoding == <<decoder, input, output>>

NoDecoder == [state |-> "none"]

config == <<mode, max_iterations, server>>

InitialMessages == <<User(<<Text("question", TRUE)>>)>>

NoLoc ==
    [pend |-> <<>>, parts |-> <<>>, call |-> None, executed |-> FALSE,
     base_data_len |-> 0, base_usage |-> UsageDefault, tool_responses |-> <<>>]

Pending == [kind |-> "Pending"]

Init ==
    /\ mode \in {"chat", "chat_stream"}
    /\ max_iterations \in 0..MaxIter
    /\ server \in {None} \cup { Some(r) : r \in ListToolsReplies }
    /\ messages = InitialMessages
    /\ current_response = Response(<<>>, UsageDefault, "Unfinished")
    /\ tools = <<>>
    /\ iteration = 0
    /\ loc = NoLoc
    /\ pc = "start"
    /\ result = Pending
    /\ log = <<>>
    /\ budget = MaxSnaps
    /\ decoder = NoDecoder
    /\ input = <<>>
    /\ output = <<>>

(***************************************************************************)
(* The errors the agent itself constructs.                                 *)
(***************************************************************************)
ErrMaxIterations == ClientError("Config", "Max iterations reached in agent loop")

ErrNoServer == ClientError("Config", "No MCP server configured")

ErrListTools(e) ==
    ClientError("ProviderError",
                "Failed to list tools from MCP server: " \o MCPErrorDisplay(e))

\* mutant: the synthesized unit does not carry the id of the call
ToolErrorPartNoId(call, e) ==
    FunctionResponse(None, call.name,
                     [error |-> "Error: " \o MCPErrorDisplay(e)], TRUE)

\* the error arm of `match result` (agent.rs 151-160 and 291-299)
ToolErrorPart(call, e) ==
    FunctionResponse(call.id, call.name,
                     [error |-> "Error: " \o MCPErrorDisplay(e)], TRUE)

\* the Ok arm: the part returned by the tool, its id set to the call's id
ToolOkPart(call, part) ==
    IF part.type = "FunctionResponse" THEN [part EXCEPT !.id = call.id] ELSE part

ToolResponsePart(call, reply) ==
    IF reply.kind = "Ok"
    THEN ToolOkPart(call, reply.value)
    ELSE ToolErrorPart(call, reply.err)

LogListTools(reply) == [op |-> "list_tools", reply |-> reply]
LogRequest(history, catalogue, reply) ==
    [op |-> "request", history |-> history, tools |-> catalogue, reply |-> reply]
LogCallTool(call, reply) ==
    [op |-> "call_tool", name |-> call.name, arguments |-> call.arguments,
     unit |-> call, reply |-> reply]

(***************************************************************************)
(* Agent::chat                                                             *)
(***************************************************************************)
\* `for msg in response.data { push; for part in msg.parts() { .. } }` run
\* up to its next suspension point: the call_tool of the next FunctionCall
\* unit (whatever its finished flag), or the end of the response.
RECURSIVE ChatScan(_, _, _, _, _)
ChatScan(pend, parts, hist, data, executed) ==
    IF parts # <<>>
    THEN IF Head(parts).type = "FunctionCall"
         THEN [at |-> "call", call |-> Head(parts), pend |-> pend,
               parts |-> Tail(parts), hist |-> hist, data |-> data,
               executed |-> TRUE]
         ELSE ChatScan(pend, Tail(parts), hist, data, executed)
    ELSE IF pend # <<>>
         THEN ChatScan(Tail(pend), Head(pend).parts, Append(hist, Head(pend)),
                       Append(data, Head(pend)), executed)
         ELSE [at |-> "end", call |-> Head(<<[type |-> "none"]>>), pend |-> pend,
               parts |-> parts, hist |-> hist, data |-> data,
               executed |-> executed]

\* mutant: the loop bound is off by one
LoopContinuesInclusive(next, max) == next <= max

\* line 107 and line 232: `for iteration in 0..self.max_iterations` enters
\* its body for the next value of `iteration` when that is below max
LoopContinues(next, max) == next < max

\* mutant: the absence of a tool server goes unnoticed
ServerMissingNever == FALSE

\* lines 135-137 and 281: self.server.as_ref().ok_or_else(..)?
ServerMissing == server = None

\* the state chat is left in once the scan stopped at s
ChatResume(s, usage, finish) ==
    LET cr == Response(s.data, usage, finish) IN
    /\ messages' = s.hist
    /\ current_response' = cr
    /\ IF s.at = "call"
       THEN IF ServerMissing
            THEN /\ pc' = "done"
                 /\ result' = Err(ErrNoServer)
                 /\ loc' = NoLoc
                 /\ iteration' = iteration
            ELSE /\ pc' = "call"
                 /\ result' = result
                 /\ loc' = [NoLoc EXCEPT !.pend = s.pend, !.parts = s.parts,
                                         !.call = Some(s.call), !.executed = TRUE]
                 /\ iteration' = iteration
       ELSE /\ loc' = NoLoc
            /\ IF ~s.executed
               THEN /\ pc' = "done"
                    /\ result' = Ok(cr)
                    /\ iteration' = iteration
               ELSE /\ iteration' = iteration + 1
                    /\ IF LoopContinues(iteration + 1, max_iterations)
                       THEN /\ pc' = "request"
                            /\ result' = result
                       ELSE /\ pc' = "done"
                            /\ result' = Err(ErrMaxIterations)

\* lines 82-107: fetch the catalogue, enter the loop
ChatStart ==
    /\ mode = "chat"
    /\ pc = "start"
    /\ UNCHANGED <<config, decoding, messages, current_response, loc, budget>>
    /\ IF server = None
       THEN /\ tools' = <<>>
            /\ log' = log
       ELSE /\ tools' = (IF server[1].kind = "Ok" THEN server[1].value ELSE <<>>)
            /\ log' = Append(log, LogListTools(server[1]))
    /\ iteration' = 0
    /\ IF server # None /\ server[1].kind = "Err"
       THEN /\ pc' = "done"
            /\ result' = Err(ErrListTools(server[1].err))
       ELSE IF ~LoopContinues(0, max_iterations)
            THEN /\ pc' = "done"
                 /\ result' = Err(ErrMaxIterations)
            ELSE /\ pc' = "request"
                 /\ result' = result

\* lines 111-168 up to the first call_tool
ChatRequestOk(response) ==
    /\ log' = Append(log, LogRequest(messages, tools, Ok(response)))
    /\ ChatResume(ChatScan(response.data, <<>>, messages, current_response.data, FALSE),
                  UsageAdd(current_response.usage, response.usage),
                  response.finish)

ChatRequestErr(e) ==
    /\ log' = Append(log, LogRequest(messages, tools, Err(e)))
    /\ pc' = "done"
    /\ result' = Err(e)
    /\ UNCHANGED <<messages, current_response, iteration, loc>>

ChatRequest ==
    /\ mode = "chat"
    /\ pc = "request"
    /\ UNCHANGED <<config, decoding, tools, budget>>
    /\ \/ \E response \in Responses : ChatRequestOk(response)
       \/ \E e \in TransportErrors : ChatRequestErr(e)

\* mutant: the tool-result message is pushed to the history only
ChatPushToolResultHistoryOnly(response_msg) ==
    ChatResume(ChatScan(loc.pend, loc.parts, Append(messages, response_msg),
                        current_response.data, TRUE),
               current_response.usage, current_response.finish)

\* mutant: the tool-result message is put at the front of the history
ChatPushToolResultFront(response_msg) ==
    ChatResume(ChatScan(loc.pend, loc.parts, <<response_msg>> \o messages,
                        Append(current_response.data, response_msg), TRUE),
               current_response.usage, current_response.finish)

\* lines 163-165: the tool-result message goes to the history and to the
\* accumulated output, and the scan goes on
ChatPushToolResult(response_msg) ==
    ChatResume(ChatScan(loc.pend, loc.parts, Append(messages, response_msg),
                        Append(current_response.data, response_msg), TRUE),
               current_response.usage, current_response.finish)

\* mutant: a tool error is propagated with `?`
ChatAfterToolPropagate(reply) ==
    /\ log' = Append(log, LogCallTool(loc.call[1], reply))
    /\ IF reply.kind = "Err"
       THEN /\ pc' = "done"
            /\ result' = Err(ClientError("ProviderError", MCPErrorDisplay(reply.err)))
            /\ UNCHANGED <<messages, current_response, iteration, loc>>
       ELSE ChatPushToolResult(User(<<ToolResponsePart(loc.call[1], reply)>>))

\* lines 138-168: call_tool answered
ChatAfterTool(reply) ==
    /\ log' = Append(log, LogCallTool(loc.call[1], reply))
    /\ ChatPushToolResult(User(<<ToolResponsePart(loc.call[1], reply)>>))

ChatCallTool ==
    /\ mode = "chat"
    /\ pc = "call"
    /\ UNCHANGED <<config, decoding, tools, budget>>
    /\ \E reply \in ToolReplies(loc.call[1].name) : ChatAfterTool(reply)

(***************************************************************************)
(* Agent::chat_stream                                                      *)
(***************************************************************************)
LogRequestStream(history, catalogue, reply) ==
    [op |-> "request_stream", history |-> history, tools |-> catalogue,
     reply |-> reply]
LogStreamItem(reply) == [op |-> "stream_item", reply |-> reply]
LogStreamEnd == [op |-> "stream_end"]
LogYield(item) == [op |-> "yield", item |-> item]

\* mutant: the previous partial snapshot of the round is not truncated away
ApplySnapshotNoTruncate(cr, base_data_len, base_usage, response) ==
    Response(cr.data \o response.data,
             UsageAdd(base_usage, response.usage),
             response.finish)

\* mutant: the usage of a snapshot is added to that of the previous one
ApplySnapshotSumPartials(cr, base_data_len, base_usage, response) ==
    Response(SubSeq(cr.data, 1, base_data_len) \o response.data,
             UsageAdd(cr.usage, response.usage),
             response.finish)

\* lines 250-255: fold one transport snapshot into current_response
ApplySnapshot(cr, base_data_len, base_usage, response) ==
    Response(SubSeq(cr.data, 1, base_data_len) \o response.data,
             UsageAdd(base_usage, response.usage),
             response.finish)

\* lines 274-277: the parts scanned for tool calls are those of the LAST
\* message of current_response.data
LastMessageParts(data) ==
    IF data = <<>> THEN <<>> ELSE data[Len(data)].parts

\* mutant: the finished flag is not looked at
ActionableAnyCall(part) == part.type = "FunctionCall"

\* line 277: a unit is executed when it is a FunctionCall and finished
Actionable(part) == part.type = "FunctionCall" /\ part.finished

\* `for part in msg.parts()` run up to the next call_tool or the end
RECURSIVE StreamScan(_)
StreamScan(parts) ==
    IF parts = <<>>
    THEN [at |-> "end", call |-> Head(<<[type |-> "none"]>>), parts |-> parts]
    ELSE IF Actionable(Head(parts))
         THEN [at |-> "call", call |-> Head(parts), parts |-> Tail(parts)]
         ELSE StreamScan(Tail(parts))

\* the state chat_stream is left in once the scan stopped at s
\* (lines 281-326); pre is what this step already appended to the log
StreamResume(s, hist, tool_responses, executed, pre) ==
    IF s.at = "call"
    THEN /\ messages' = hist
         /\ current_response' = current_response
         /\ iteration' = iteration
         /\ IF ServerMissing
            THEN /\ pc' = "done"
                 /\ loc' = NoLoc
                 /\ log' = log \o pre \o <<LogYield(Err(ErrNoServer))>>
            ELSE /\ pc' = "call"
                 /\ loc' = [loc EXCEPT !.parts = s.parts, !.call = Some(s.call),
                                       !.executed = TRUE,
                                       !.tool_responses = tool_responses]
                 /\ log' = log \o pre
    ELSE /\ loc' = NoLoc
         /\ IF executed
            THEN LET tool_msg == User(tool_responses)
                     cr == [current_response EXCEPT !.data = Append(@, tool_msg)]
                 IN /\ messages' = Append(hist, tool_msg)
                    /\ current_response' = cr
                    /\ iteration' = iteration + 1
                    /\ IF LoopContinues(iteration + 1, max_iterations)
                       THEN /\ pc' = "request"
                            /\ log' = log \o pre \o <<LogYield(Ok(cr))>>
                       ELSE /\ pc' = "done"
                            /\ log' = log \o pre \o
                                      <<LogYield(Ok(cr)),
                                        LogYield(Err(ErrMaxIterations))>>
            ELSE /\ messages' = hist
                 /\ current_response' = current_response
                 /\ iteration' = iteration
                 /\ pc' = "done"
                 /\ log' = log \o pre

\* mutant: the first round is entered without looking at max_iterations
StreamStartUnbounded ==
    /\ mode = "chat_stream"
    /\ pc = "start"
    /\ UNCHANGED <<config, decoding, messages, current_response, loc, budget, result>>
    /\ tools' = (IF server # None /\ server[1].kind = "Ok"
                 THEN server[1].value ELSE <<>>)
    /\ iteration' = 0
    /\ pc' = "request"
    /\ log' = log \o (IF server = None THEN <<>> ELSE <<LogListTools(server[1])>>)

\* mutant: chat_stream gives up when the catalogue cannot be fetched
StreamStartStrict ==
    /\ mode = "chat_stream"
    /\ pc = "start"
    /\ UNCHANGED <<config, decoding, messages, current_response, loc, budget, result>>
    /\ tools' = (IF server # None /\ server[1].kind = "Ok"
                 THEN server[1].value ELSE <<>>)
    /\ iteration' = 0
    /\ LET pre == IF server = None THEN <<>> ELSE <<LogListTools(server[1])>>
       IN IF server # None /\ server[1].kind = "Err"
          THEN /\ pc' = "done"
               /\ log' = log \o pre \o <<LogYield(Err(ErrListTools(server[1].err)))>>
          ELSE IF ~LoopContinues(0, max_iterations)
          THEN /\ pc' = "done"
               /\ log' = log \o pre \o <<LogYield(Err(ErrMaxIterations))>>
          ELSE /\ pc' = "request"
               /\ log' = log \o pre

\* lines 210-232: fetch the catalogue (a failure only empties it), enter
\* the loop
StreamStart ==
    /\ mode = "chat_stream"
    /\ pc = "start"
    /\ UNCHANGED <<config, decoding, messages, current_response, loc, budget, result>>
    /\ tools' = (IF server # None /\ server[1].kind = "Ok"
                 THEN server[1].value ELSE <<>>)
    /\ iteration' = 0
    /\ LET pre == IF server = None THEN <<>> ELSE <<LogListTools(server[1])>>
       IN IF ~LoopContinues(0, max_iterations)
          THEN /\ pc' = "done"
               /\ log' = log \o pre \o <<LogYield(Err(ErrMaxIterations))>>
          ELSE /\ pc' = "request"
               /\ log' = log \o pre

\* mutant: the catalogue is fetched again at every round
StreamRequestOkRefetch ==
    /\ log' = log \o (IF server = None THEN <<>> ELSE <<LogListTools(server[1])>>)
                  \o <<LogRequestStream(messages, tools, Ok("stream"))>>
    /\ loc' = [NoLoc EXCEPT !.base_data_len = Len(current_response.data),
                            !.base_usage = current_response.usage]
    /\ pc' = "stream"

\* lines 239-243
StreamRequestOk ==
    /\ log' = Append(log, LogRequestStream(messages, tools, Ok("stream")))
    /\ loc' = [NoLoc EXCEPT !.base_data_len = Len(current_response.data),
                            !.base_usage = current_response.usage]
    /\ pc' = "stream"

StreamRequestErr(e) ==
    /\ log' = log \o <<LogRequestStream(messages, tools, Err(e)), LogYield(Err(e))>>
    /\ loc' = NoLoc
    /\ pc' = "done"

StreamRequest ==
    /\ mode = "chat_stream"
    /\ pc = "request"
    /\ UNCHANGED <<config, decoding, messages, current_response, tools, iteration,
                   budget, result>>
    /\ \/ StreamRequestOk
       \/ \E e \in TransportErrors : StreamRequestErr(e)

\* mutant: a snapshot received is folded in but not passed on
StreamSnapshotSilent(response) ==
    LET cr == ApplySnapshot(current_response, loc.base_data_len,
                            loc.base_usage, response)
    IN /\ budget > 0
       /\ budget' = budget - 1
       /\ current_response' = cr
       /\ log' = log \o <<LogStreamItem(Ok(response))>>
       /\ pc' = "stream"
       /\ loc' = loc

\* lines 245-258: one item of the provider stream
StreamSnapshot(response) ==
    LET cr == ApplySnapshot(current_response, loc.base_data_len,
                            loc.base_usage, response)
    IN /\ budget > 0
       /\ budget' = budget - 1
       /\ current_response' = cr
       /\ log' = log \o <<LogStreamItem(Ok(response)), LogYield(Ok(cr))>>
       /\ pc' = "stream"
       /\ loc' = loc

\* mutant: a failed stream item is skipped and the stream read on
StreamItemErrSkipped(e) ==
    /\ log' = log \o <<LogStreamItem(Err(e))>>
    /\ pc' = "stream"
    /\ UNCHANGED <<current_response, budget, loc>>

\* line 246: `let response = response_result?;`
StreamItemErr(e) ==
    /\ log' = log \o <<LogStreamItem(Err(e)), LogYield(Err(e))>>
    /\ pc' = "done"
    /\ loc' = NoLoc
    /\ UNCHANGED <<current_response, budget>>

StreamNext ==
    /\ mode = "chat_stream"
    /\ pc = "stream"
    /\ UNCHANGED <<config, decoding, messages, tools, iteration, result>>
    /\ \/ \E response \in Responses : StreamSnapshot(response)
       \/ \E e \in TransportErrors : StreamItemErr(e)

\* lines 260-305 up to the first call_tool: the provider stream ended
StreamEnd ==
    /\ mode = "chat_stream"
    /\ pc = "stream"
    /\ UNCHANGED <<config, decoding, tools, budget, result>>
    /\ StreamResume(StreamScan(LastMessageParts(current_response.data)),
                    messages \o SubSeq(current_response.data,
                                       loc.base_data_len + 1,
                                       Len(current_response.data)),
                    <<>>, FALSE, <<LogStreamEnd>>)

\* mutant: the latest tool result is put in front of the earlier ones
StreamAfterToolPrepend(reply) ==
    LET call == loc.call[1] IN
    StreamResume(StreamScan(loc.parts), messages,
                 <<ToolResponsePart(call, reply)>> \o loc.tool_responses,
                 TRUE, <<LogCallTool(call, reply)>>)

\* mutant: a tool call that failed leaves no unit in the tool-result message
StreamAfterToolDropFailed(reply) ==
    LET call == loc.call[1] IN
    StreamResume(StreamScan(loc.parts), messages,
                 IF reply.kind = "Ok"
                 THEN Append(loc.tool_responses, ToolResponsePart(call, reply))
                 ELSE loc.tool_responses,
                 TRUE, <<LogCallTool(call, reply)>>)

\* lines 282-312: call_tool answered
StreamAfterTool(reply) ==
    LET call == loc.call[1] IN
    StreamResume(StreamScan(loc.parts), messages,
                 Append(loc.tool_responses, ToolResponsePart(call, reply)),
                 TRUE, <<LogCallTool(call, reply)>>)

StreamCallTool ==
    /\ mode = "chat_stream"
    /\ pc = "call"
    /\ UNCHANGED <<config, decoding, tools, budget, result>>
    /\ \E reply \in ToolReplies(loc.call[1].name) : StreamAfterTool(reply)

Next ==
    \/ ChatStart
    \/ ChatRequest
    \/ ChatCallTool
    \/ StreamStart
    \/ StreamRequest
    \/ StreamNext
    \/ StreamEnd
    \/ StreamCallTool

Spec == Init /\ [][Next]_vars

\* chat and chat_stream run to their next suspension point whenever the
\* collaborator they wait on answers
FairSpec == Spec /\ WF_vars(Next)

\* the agent loop in either mode, read round by round
LoopSpec == Init /\ [][Next]_vars


\* Agent::chat alone
ChatInit == Init /\ mode = "chat"

ChatNext ==
    \/ ChatStart
    \/ ChatRequest
    \/ ChatCallTool

ChatSpec == ChatInit /\ [][ChatNext]_vars /\ WF_vars(ChatNext)

\* Agent::chat_stream alone
StreamInit == Init /\ mode = "chat_stream"

StreamLoopNext ==
    \/ StreamStart
    \/ StreamRequest
    \/ StreamNext
    \/ StreamEnd
    \/ StreamCallTool

StreamSpec == StreamInit /\ [][StreamLoopNext]_vars

\* chat_stream runs to its next suspension point whenever the collaborator
\* it waits on answers; provider streams are finite (budget)
FairStreamSpec == StreamSpec /\ WF_vars(StreamLoopNext)

(***************************************************************************)
(* The consumer of chat_stream.  chat_stream returns a lazy sequence       *)
(* (async_stream::try_stream!, agent.rs 210): its body runs only while the *)
(* consumer pulls the next item, and nothing of it runs on a task of its   *)
(* own.  For chat_stream `result` is that sequence in the consumer's       *)
(* hands: Pending while the consumer goes on pulling, Dropped once it has  *)
(* stopped.                                                                *)
(***************************************************************************)
Dropped == [kind |-> "Dropped"]

\* mutant: the body runs on a task of its own, pulled or not
PolledOrSpawned == TRUE

\* the body advances only inside a pull of the consumer
Polled == result = Pending

\* the consumer stops pulling: at an item it was handed, or while the body
\* waits on a collaborator
Drop ==
    /\ mode = "chat_stream"
    /\ result = Pending
    /\ result' = Dropped
    /\ UNCHANGED <<config, decoding, messages, current_response, tools,
                   iteration, loc, pc, log, budget>>

CancelNext ==
    \/ Polled /\ StreamStart
    \/ Polled /\ StreamRequest
    \/ Polled /\ StreamNext
    \/ Polled /\ StreamEnd
    \/ Polled /\ StreamCallTool
    \/ Drop

CancelSpec == StreamInit /\ [][CancelNext]_vars

(***************************************************************************)
(* Reading the log.                                                        *)
(***************************************************************************)
IsRequest(e) == e.op = "request"
IsCallTool(e) == e.op = "call_tool"
IsYield(e) == e.op = "yield"

Requests == SelectSeq(log, IsRequest)
ToolCalls == SelectSeq(log, IsCallTool)
Yields == SelectSeq(log, IsYield)

IsCall(part) == part.type = "FunctionCall"

\* the positions <<message, part>> of the FunctionCall units of data
CallPositions(data) ==
    { <<i, j>> \in (1..Len(data)) \X (1..4) :
         j <= Len(data[i].parts) /\ IsCall(data[i].parts[j]) }

HasCall(data) == CallPositions(data) # {}

Done == pc = "done"

ServerUsable == server # None /\ server[1].kind = "Ok"

(***************************************************************************)
(* C1 -- Agent::chat convergence.  On an Agent with a working tool server  *)
(* and max_iterations >= 2, when the round-1 response is one assistant     *)
(* message with exactly one FunctionCall, chat issues a second request;    *)
(* when the round-2 response has no FunctionCall, chat returns Ok after    *)
(* exactly 2 requests and the returned data is the round-1 assistant       *)
(* message, one User message holding the FunctionResponse of that call,    *)
(* and the round-2 message(s), in that order.                              *)
(***************************************************************************)
C1_Round1OneCall ==
    /\ Len(Requests) >= 1
    /\ Requests[1].reply.kind = "Ok"
    /\ Len(Requests[1].reply.value.data) = 1
    /\ Cardinality(CallPositions(Requests[1].reply.value.data)) = 1

C1_Round2NoCall ==
    /\ Len(Requests) >= 2
    /\ Requests[2].reply.kind = "Ok"
    /\ ~HasCall(Requests[2].reply.value.data)

C1_Convergence ==
    (mode = "chat" /\ Done /\ ServerUsable /\ max_iterations >= 2 /\ C1_Round1OneCall)
    => /\ Len(Requests) >= 2
       /\ C1_Round2NoCall =>
            LET r1 == Requests[1].reply.value
                r2 == Requests[2].reply.value
                pos == CHOOSE q \in CallPositions(r1.data) : TRUE
                call == r1.data[pos[1]].parts[pos[2]]
            IN /\ result.kind = "Ok"
               /\ Len(Requests) = 2
               /\ Len(result.value.data) = 2 + Len(r2.data)
               /\ result.value.data[1] = r1.data[1]
               /\ result.value.data[2].role = "user"
               /\ Len(result.value.data[2].parts) = 1
               /\ result.value.data[2].parts[1].type = "FunctionResponse"
               /\ result.value.data[2].parts[1].id = call.id
               /\ result.value.data[2].parts[1].name = call.name
               /\ SubSeq(result.value.data, 3, Len(result.value.data)) = r2.data

C1_Witness ==
    /\ mode = "chat" /\ Done /\ ServerUsable /\ C1_Round1OneCall /\ C1_Round2NoCall
    /\ Len(Requests[2].reply.value.data) = 1
    /\ result.kind = "Ok"
    /\ Len(result.value.data) = 3

(***************************************************************************)
(* C2 -- Agent::chat divergence.  Whatever max_iterations and whatever the *)
(* transport answers, chat issues at most max_iterations requests and      *)
(* terminates; on an Agent with a working tool server, when every round's  *)
(* response contains a FunctionCall, chat ends with the iteration-limit    *)
(* error after exactly max_iterations requests, and the error carries no   *)
(* Response.                                                               *)
(***************************************************************************)
C2_EveryRoundCalls ==
    \A i \in 1..Len(Requests) :
        /\ Requests[i].reply.kind = "Ok"
        /\ HasCall(Requests[i].reply.value.data)

C2_Divergence ==
    /\ [](mode = "chat" => Len(Requests) <= max_iterations)
    /\ <>Done
    /\ []((mode = "chat" /\ Done /\ ServerUsable /\ C2_EveryRoundCalls)
          => /\ result = Err(ErrMaxIterations)
             /\ DOMAIN result = {"kind", "err"}
             /\ Len(Requests) = max_iterations)

C2_Witness ==
    /\ mode = "chat" /\ Done /\ ServerUsable /\ C2_EveryRoundCalls
    /\ max_iterations = MaxIter
    /\ Len(Requests) = MaxIter
    /\ result = Err(ErrMaxIterations)

(***************************************************************************)
(* More reading of the log.                                                *)
(***************************************************************************)
TransportOps == {"request", "request_stream", "stream_item"}

IsTransportError(e) == e.op \in TransportOps /\ e.reply.kind = "Err"

IsCollaboratorCall(e) == e.op # "yield"

\* the calls made on the collaborators, without the yields
Calls == SelectSeq(log, IsCollaboratorCall)

\* the error the run ended with: None, or Some(ClientError)
RunError ==
    IF mode = "chat"
    THEN IF result.kind = "Err" THEN Some(result.err) ELSE None
    ELSE IF Yields # <<>> /\ Yields[Len(Yields)].item.kind = "Err"
         THEN Some(Yields[Len(Yields)].item.err)
         ELSE None

\* the last position before i whose op is in ops, 0 when there is none
LastBefore(i, ops) ==
    LET c == { j \in 1..(i - 1) : log[j].op \in ops }
    IN IF c = {} THEN 0 ELSE CHOOSE j \in c : \A k \in c : k <= j

SomeToolFailed == \E k \in 1..Len(ToolCalls) : ToolCalls[k].reply.kind = "Err"

(***************************************************************************)
(* C3 -- Tool failure isolation.  As claimed: a run ends with an error     *)
(* only by iteration exhaustion or by a transport/decoder error.           *)
(***************************************************************************)
C3_OnlyLoopAndTransportErrors ==
    (Done /\ RunError # None)
    => \/ RunError[1] = ErrMaxIterations
       \/ /\ Calls # <<>>
          /\ IsTransportError(Calls[Len(Calls)])
          /\ RunError[1] = Calls[Len(Calls)].reply.err

(***************************************************************************)
(* C3, amended -- a failing tool call never ends chat or chat_stream with  *)
(* an error of its own: after it the round goes on, and a run that ends    *)
(* right after a failed call ends by iteration exhaustion; a run with      *)
(* failed calls whose last round executes no call ends successfully.  A    *)
(* run ends with an error only by iteration exhaustion, by a               *)
(* transport/decoder error, by a FunctionCall met with no tool server      *)
(* attached, or (chat) by a failing list_tools.                            *)
(***************************************************************************)
C3_ToolFailureIsolation ==
    Done =>
      /\ RunError # None =>
           \/ RunError[1] = ErrMaxIterations /\ iteration = max_iterations
           \/ /\ Calls # <<>>
              /\ IsTransportError(Calls[Len(Calls)])
              /\ RunError[1] = Calls[Len(Calls)].reply.err
           \/ RunError[1] = ErrNoServer /\ server = None
           \/ /\ mode = "chat" /\ server # None /\ server[1].kind = "Err"
              /\ RunError[1] = ErrListTools(server[1].err)
      /\ (Calls # <<>> /\ IsCallTool(Calls[Len(Calls)])
            /\ Calls[Len(Calls)].reply.kind = "Err")
           => RunError = Some(ErrMaxIterations)
      /\ (SomeToolFailed /\ ~IsCallTool(Calls[Len(Calls)])
            /\ ~IsTransportError(Calls[Len(Calls)]))
           => RunError = None

C3_Witness ==
    /\ Done
    /\ SomeToolFailed
    /\ RunError = None
    /\ Len(Calls) > Len(ToolCalls) + 2

(***************************************************************************)
(* The FunctionResponse units synthesized so far, in the order of their    *)
(* calls: those already in the history, then those chat_stream still holds *)
(* in tool_responses.                                                      *)
(***************************************************************************)
RECURSIVE Flatten(_)
Flatten(data) ==
    IF data = <<>> THEN <<>> ELSE Head(data).parts \o Flatten(Tail(data))

IsFunctionResponse(part) == part.type = "FunctionResponse"

ToolResults ==
    SelectSeq(Flatten(messages), IsFunctionResponse) \o loc.tool_responses

(***************************************************************************)
(* C4 -- As claimed: for every failed tool call the synthesized            *)
(* FunctionResponse has finished = true, the id and name of the call, and  *)
(* response exactly {"error": m}, m the message of the MCPError.           *)
(***************************************************************************)
C4_ErrorPayloadExact ==
    /\ Len(ToolResults) = Len(ToolCalls)
    /\ \A k \in 1..Len(ToolCalls) :
         ToolCalls[k].reply.kind = "Err" =>
           /\ ToolResults[k].finished
           /\ ToolResults[k].id = ToolCalls[k].unit.id
           /\ ToolResults[k].name = ToolCalls[k].unit.name
           /\ ToolResults[k].response =
                 [error |-> MCPErrorDisplay(ToolCalls[k].reply.err)]

(***************************************************************************)
(* C4, amended -- for every failed tool call, in chat and in chat_stream,  *)
(* the synthesized FunctionResponse has finished = true, the id and name   *)
(* of the call, no attachments, and response exactly                       *)
(* {"error": "Error: " ++ m}, m the message of the MCPError.               *)
(***************************************************************************)
C4_ErrorPayload ==
    /\ Len(ToolResults) = Len(ToolCalls)
    /\ \A k \in 1..Len(ToolCalls) :
         ToolCalls[k].reply.kind = "Err" =>
           /\ ToolResults[k].type = "FunctionResponse"
           /\ ToolResults[k].finished
           /\ ToolResults[k].id = ToolCalls[k].unit.id
           /\ ToolResults[k].name = ToolCalls[k].unit.name
           /\ ToolResults[k].parts = <<>>
           /\ ToolResults[k].response =
                 [error |-> "Error: " \o MCPErrorDisplay(ToolCalls[k].reply.err)]

C4_Witness ==
    /\ mode = "chat_stream"
    /\ Done
    /\ \E k \in 1..Len(ToolCalls) :
         /\ ToolCalls[k].reply = Err(MCPError("ToolNotFound", "g"))
         /\ ToolCalls[k].unit.id = Some("c2")
         /\ ToolResults[k].response = [error |-> "Error: Tool not found: g"]

(***************************************************************************)
(* C5 -- chat_stream snapshot semantics.  Reading the log from its start:  *)
(* fin is the finalized data of the rounds before the current one (for     *)
(* each, the data of its last transport snapshot and its tool-result       *)
(* message), cur the data of the latest transport snapshot of the current  *)
(* round, res the tool results of the current round.  Every snapshot       *)
(* yielded for a transport snapshot has data fin ++ that snapshot's data;  *)
(* the snapshot yielded at the end of a round with tool calls adds the     *)
(* round's tool-result message to it.                                      *)
(***************************************************************************)
ToolMessage(res) == IF res = <<>> THEN <<>> ELSE <<User(res)>>

RECURSIVE C5_Holds(_, _, _, _)
C5_Holds(i, fin, cur, res) ==
    IF i > Len(log)
    THEN TRUE
    ELSE LET e == log[i] IN
         CASE e.op = "request_stream" ->
                C5_Holds(i + 1, fin \o cur \o ToolMessage(res), <<>>, <<>>)
           [] e.op = "stream_item" /\ e.reply.kind = "Ok" ->
                C5_Holds(i + 1, fin, e.reply.value.data, res)
           [] e.op = "call_tool" ->
                C5_Holds(i + 1, fin, cur, Append(res, ToolResponsePart(e.unit, e.reply)))
           [] e.op = "yield" /\ e.item.kind = "Ok" ->
                /\ IF log[i - 1].op = "stream_item"
                   THEN e.item.value.data = fin \o log[i - 1].reply.value.data
                   ELSE /\ res # <<>>
                        /\ e.item.value.data = fin \o cur \o <<User(res)>>
                /\ C5_Holds(i + 1, fin, cur, res)
           [] OTHER -> C5_Holds(i + 1, fin, cur, res)

C5_SnapshotSemantics ==
    mode = "chat_stream" => C5_Holds(1, <<>>, <<>>, <<>>)

\* in a round after the first, a second snapshot replaced a different,
\* non-empty first one
C5_Witness ==
    /\ mode = "chat_stream"
    /\ iteration >= 1
    /\ Len(log) >= 5
    /\ LET n == Len(log) IN
       /\ log[n].op = "yield" /\ log[n].item.kind = "Ok"
       /\ log[n - 1].op = "stream_item"
       /\ log[n - 2].op = "yield"
       /\ log[n - 3].op = "stream_item"
       /\ log[n - 4].op = "request_stream"
       /\ log[n - 3].reply.value.data # <<>>
       /\ log[n - 1].reply.value.data # <<>>
       /\ log[n - 3].reply.value.data # log[n - 1].reply.value.data
       /\ Len(log[n].item.value.data) = 3

(***************************************************************************)
(* C6 -- In chat_stream every call_tool is made after the provider stream  *)
(* of its round has ended (no stream item and no stream request between    *)
(* that end and the call), and for a FunctionCall unit that is in the last *)
(* snapshot of that round with finished = true.                            *)
(***************************************************************************)
C6_OnlyFinishedAfterStreamEnd ==
    mode = "chat_stream" =>
      \A i \in 1..Len(log) :
        log[i].op = "call_tool" =>
          LET j == LastBefore(i, {"request_stream", "stream_item", "stream_end"})
              k == LastBefore(j, {"request_stream", "stream_item"})
          IN /\ j > 0 /\ log[j].op = "stream_end"
             /\ k > 0 /\ log[k].op = "stream_item" /\ log[k].reply.kind = "Ok"
             /\ log[i].unit.finished
             /\ \E q \in CallPositions(log[k].reply.value.data) :
                  log[k].reply.value.data[q[1]].parts[q[2]] = log[i].unit

\* a round whose last snapshot holds a finished and an unfinished call
\* ran its tool calls: one call_tool, for the finished unit
C6_Witness ==
    /\ mode = "chat_stream"
    /\ Len(ToolCalls) = 1
    /\ ToolCalls[1].unit.name = "g"
    /\ iteration = 1
    /\ \E k \in 1..Len(log) :
         /\ log[k].op = "stream_item" /\ log[k].reply.kind = "Ok"
         /\ \E q \in CallPositions(log[k].reply.value.data) :
              ~log[k].reply.value.data[q[1]].parts[q[2]].finished
         /\ k + 2 <= Len(log) /\ log[k + 2].op = "stream_end"

(***************************************************************************)
(* C7 -- In Agent::chat the tool executor is never called for a            *)
(* FunctionCall unit whose finished flag is false.                         *)
(***************************************************************************)
C7_ChatOnlyFinished ==
    mode = "chat" =>
      \A k \in 1..Len(ToolCalls) : ToolCalls[k].unit.finished

(***************************************************************************)
(* C8 -- Transport/decoder error propagation.  Once a transport request    *)
(* (chat), a stream request or a stream item (chat_stream) has failed, the *)
(* run is over with that error as its outcome (what chat returns, the      *)
(* last item chat_stream yields); nothing is called after it, and no tool  *)
(* call was made since the request that opened the round.                  *)
(***************************************************************************)
C8_TransportErrorFinal ==
    \A i \in 1..Len(log) :
      IsTransportError(log[i]) =>
        LET r == IF log[i].op = "stream_item"
                 THEN LastBefore(i, {"request_stream"})
                 ELSE i
        IN /\ Done
           /\ RunError = Some(log[i].reply.err)
           /\ \A j \in (i + 1)..Len(log) : log[j] = LogYield(Err(log[i].reply.err))
           /\ Len(log) = (IF mode = "chat" THEN i ELSE i + 1)
           /\ \A j \in r..Len(log) : log[j].op # "call_tool"

\* a stream item failed in a later round, after a snapshot of that round
C8_Witness ==
    /\ mode = "chat_stream"
    /\ iteration >= 1
    /\ Len(log) >= 4
    /\ IsTransportError(log[Len(log) - 1])
    /\ log[Len(log) - 1].op = "stream_item"
    /\ log[Len(log) - 3].op = "stream_item"

(***************************************************************************)
(* C9 -- ToolNotConfigured.  As claimed: with no tool server attached,     *)
(* whenever a FunctionCall unit is in a round's response (chat: the        *)
(* response of the request; chat_stream: the last snapshot before the      *)
(* stream ended), the run ends there with the configuration error.         *)
(***************************************************************************)
C9_ChatPart ==
    mode = "chat" =>
      \A i \in 1..Len(log) :
        (log[i].op = "request" /\ log[i].reply.kind = "Ok"
           /\ HasCall(log[i].reply.value.data))
        => /\ Done
           /\ result = Err(ErrNoServer)
           /\ Len(log) = i

\* the run ended with the configuration error right after the stream end
\* at position j of the log
C9_EndedAt(j) ==
    /\ Done
    /\ Len(log) = j + 1
    /\ log[j + 1] = LogYield(Err(ErrNoServer))

\* the last snapshot of the round whose stream ended at position j
C9_LastSnapshot(j) == log[LastBefore(j, {"request_stream", "stream_item"})]

C9_AnyCallNoServer ==
    server = None =>
      /\ ToolCalls = <<>>
      /\ C9_ChatPart
      /\ mode = "chat_stream" =>
           \A j \in 1..Len(log) :
             (log[j].op = "stream_end"
                /\ C9_LastSnapshot(j).op = "stream_item"
                /\ C9_LastSnapshot(j).reply.kind = "Ok"
                /\ HasCall(C9_LastSnapshot(j).reply.value.data))
             => C9_EndedAt(j)

(***************************************************************************)
(* C9, amended -- with no tool server attached nothing is ever executed,   *)
(* and the run ends with the configuration error, with no further          *)
(* transport request, as soon as it meets a FunctionCall unit it would     *)
(* execute: in chat any FunctionCall unit of the round's response; in      *)
(* chat_stream a FunctionCall unit with finished = true in the last        *)
(* message of the round's last snapshot.                                   *)
(***************************************************************************)
C9_HasActionable(data) ==
    \E j \in 1..Len(LastMessageParts(data)) :
        /\ IsCall(LastMessageParts(data)[j])
        /\ LastMessageParts(data)[j].finished

C9_ToolNotConfigured ==
    server = None =>
      /\ ToolCalls = <<>>
      /\ C9_ChatPart
      /\ mode = "chat_stream" =>
           \A j \in 1..Len(log) :
             (log[j].op = "stream_end"
                /\ C9_LastSnapshot(j).op = "stream_item"
                /\ C9_LastSnapshot(j).reply.kind = "Ok"
                /\ C9_HasActionable(C9_LastSnapshot(j).reply.value.data))
             => C9_EndedAt(j)

C9_Witness ==
    /\ server = None
    /\ mode = "chat_stream"
    /\ Done
    /\ iteration = 0
    /\ Len(log) >= 4
    /\ log[Len(log)] = LogYield(Err(ErrNoServer))
    /\ log[Len(log) - 1].op = "stream_end"

(***************************************************************************)
(* C10 -- FinishReason::Unfinished is never surfaced as final: not as the  *)
(* finish of the Response a successful chat returns, and not as the finish *)
(* of the last snapshot of a chat_stream run that ended without error.     *)
(***************************************************************************)
C10_NeverUnfinished ==
    Done =>
      /\ (mode = "chat" /\ result.kind = "Ok")
           => result.value.finish # "Unfinished"
      /\ (mode = "chat_stream" /\ RunError = None /\ Yields # <<>>)
           => Yields[Len(Yields)].item.value.finish # "Unfinished"


(***************************************************************************)
(* The provider side: model.rs Usage arithmetic and the decoders of        *)
(* api/anthropic.rs, api/openai.rs and api/gemini.rs.  They run without    *)
(* an Agent: the agent's variables stay at rest.                           *)
(***************************************************************************)
\* largest token count a provider reports
MaxTok == 2

agent == <<config, messages, current_response, tools, iteration, loc, pc,
           result, log, budget>>

AgentIdle ==
    /\ max_iterations = 0
    /\ server = None
    /\ messages = <<>>
    /\ current_response = Response(<<>>, UsageDefault, "Unfinished")
    /\ tools = <<>>
    /\ iteration = 0
    /\ loc = NoLoc
    /\ pc = "idle"
    /\ result = Pending
    /\ log = <<>>
    /\ budget = 0

(***************************************************************************)
(* model.rs: impl Add for Usage, applied to three operands.                *)
(***************************************************************************)
OptTokens == {None} \cup { Some(n) : n \in 0..MaxTok }

Usages == { Usage(p, c) : p \in OptTokens, c \in OptTokens }

UsageInit ==
    /\ mode = "usage_add"
    /\ AgentIdle
    /\ decoder = NoDecoder
    /\ input \in { <<a, b, c>> : a \in Usages, b \in Usages, c \in Usages }
    /\ output = <<>>

\* a + b, b + a, (a + b) + c and a + (b + c)
UsageAddApply ==
    /\ mode = "usage_add"
    /\ output = <<>>
    /\ output' = << [ab |-> UsageAdd(input[1], input[2]),
                     ba |-> UsageAdd(input[2], input[1]),
                     ab_c |-> UsageAdd(UsageAdd(input[1], input[2]), input[3]),
                     a_bc |-> UsageAdd(input[1], UsageAdd(input[2], input[3]))] >>
    /\ UNCHANGED <<agent, decoder, input>>

UsageNext == UsageAddApply

UsageSpec == UsageInit /\ [][UsageNext]_vars

(***************************************************************************)
(***************************************************************************)
(* What the three stream decoders share: serde_json values, the Reasoning  *)
(* unit, the accumulator a stream starts from, and the items it yields.    *)
(***************************************************************************)
\* number of provider events one stream delivers
MaxEvents == 3

\* serde_json::Value: Null, String(text), and a parsed document
JNull == [json |-> "null", text |-> ""]
JString(s) == [json |-> "string", text |-> s]
JDoc(t) == [json |-> "document", text |-> t]
\* json!({})
EmptyObject == JDoc("{}")

\* the argument texts that are valid JSON, among those built from the
\* fragments "{" , "}" and "{}"
ValidJson == {"{}"}

\* the argument texts that are a JSON string literal, and the string each
\* denotes
JsonStrings == ("\"{}\"" :> "{}")

\* serde_json::from_str(text): an object, a string, or a syntax error
JsonFromStr(text) ==
    IF text \in ValidJson THEN Ok(JDoc(text))
    ELSE IF text \in DOMAIN JsonStrings THEN Ok(JString(JsonStrings[text]))
    ELSE Err("syntax")

Reasoning(content, signature, finished) ==
    [type |-> "Reasoning", content |-> content, summary |-> None,
     signature |-> signature, finished |-> finished]

\* Response { data: vec![Message::Assistant(vec![])], usage: default, finish: Unfinished }
StreamResponseNew == Response(<<Assistant(<<>>)>>, UsageDefault, "Unfinished")

\* current_response.data[0].parts_mut()
PartsOf(d) == d.current_response.data[1].parts

\* mutant: a write also pushes an empty message after the one under
\* construction
SetPartsPush(d, parts) ==
    [d EXCEPT !.current_response.data = <<Assistant(parts), Assistant(<<>>)>>]

SetParts(d, parts) ==
    [d EXCEPT !.current_response.data = <<Assistant(parts)>>]

\* Part::* { finished, .. } => *finished = true
Finish(part) == [part EXCEPT !.finished = TRUE]

\* a decoder step: the new locals, and what the step yields (None, Some(Ok
\* snapshot) or Some(Err)); an Err ends the try_stream
Step(d, yielded) == [decoder |-> d, yielded |-> yielded]

YieldSnapshot(d) == Step(d, Some(Ok(d.current_response)))

\* an Err item that does not end the stream
FailKeepsOpen(d, e) == Step(d, Some(Err(e)))

Fail(d, e) == Step([d EXCEPT !.state = "failed"], Some(Err(e)))

\* serde_json::from_str(&event_str) failed on the event text
Malformed == [type |-> "malformed"]

ErrJsonParse == ClientError("ProviderError", "JSON parse error")

\* the step is taken: the event is consumed and the item, if any, yielded
Deliver(ev, step) ==
    /\ input' = Append(input, ev)
    /\ decoder' = step.decoder
    /\ output' = (IF step.yielded = None THEN output
                  ELSE Append(output, [at |-> Len(input) + 1,
                                       item |-> step.yielded[1]]))
    /\ UNCHANGED agent

\* stream.next() returned None: the while loop and the stream end
EndOfStream ==
    /\ decoder.state = "open"
    /\ decoder' = [decoder EXCEPT !.state = "ended"]
    /\ UNCHANGED <<agent, input, output>>

(***************************************************************************)
(* api/anthropic.rs: AnthropicStream::new                                  *)
(***************************************************************************)
AnthropicStreamNew ==
    [state |-> "open", current_response |-> StreamResponseNew,
     tool_buffers |-> <<>>]

\* AnthropicStreamEvent and its payloads
MessageStart(input_tokens, output_tokens) ==
    [type |-> "message_start", input_tokens |-> input_tokens,
     output_tokens |-> output_tokens]
ContentBlockStart(index, content_block) ==
    [type |-> "content_block_start", index |-> index,
     content_block |-> content_block]
ContentBlockDelta(index, delta) ==
    [type |-> "content_block_delta", index |-> index, delta |-> delta]
ContentBlockStop(index) == [type |-> "content_block_stop", index |-> index]
MessageDelta(stop_reason, usage) ==
    [type |-> "message_delta", stop_reason |-> stop_reason, usage |-> usage]
MessageStop == [type |-> "message_stop"]
Ping == [type |-> "ping"]
ErrorEvent == [type |-> "error", error_type |-> "overloaded_error",
               message |-> "Overloaded"]

BlockText == [type |-> "text", text |-> ""]
BlockToolUse(id, name) == [type |-> "tool_use", id |-> id, name |-> name]
BlockThinking == [type |-> "thinking", thinking |-> "", signature |-> ""]
BlockRedactedThinking == [type |-> "redacted_thinking", data |-> "x"]

TextDelta(text) == [type |-> "text_delta", text |-> text]
InputJsonDelta(partial_json) ==
    [type |-> "input_json_delta", partial_json |-> partial_json]
ThinkingDelta(thinking) == [type |-> "thinking_delta", thinking |-> thinking]
SignatureDelta(signature) ==
    [type |-> "signature_delta", signature |-> signature]

AnthropicEvents ==
    { MessageStart(2, 1),
      ContentBlockStart(0, BlockText),
      ContentBlockStart(0, BlockToolUse("t0", "f")),
      ContentBlockStart(0, BlockThinking),
      ContentBlockStart(0, BlockRedactedThinking),
      ContentBlockStart(1, BlockText),
      ContentBlockStart(1, BlockToolUse("t1", "g")),
      ContentBlockDelta(0, TextDelta("a")),
      ContentBlockDelta(0, InputJsonDelta("{}")),
      ContentBlockDelta(0, InputJsonDelta("{")),
      ContentBlockDelta(0, ThinkingDelta("t")),
      ContentBlockDelta(0, SignatureDelta("s")),
      ContentBlockDelta(1, TextDelta("a")),
      ContentBlockDelta(1, InputJsonDelta("{")),
      ContentBlockStop(0),
      ContentBlockStop(1),
      MessageDelta(Some("end_turn"), Some(0)),
      MessageDelta(Some("tool_use"), None),
      MessageStop,
      Ping,
      ErrorEvent,
      Malformed }

AnthropicFinish(stop_reason) ==
    CASE stop_reason = "end_turn" -> "Stop"
      [] stop_reason = "max_tokens" -> "OutputTokens"
      [] stop_reason = "stop_sequence" -> "Stop"
      [] stop_reason = "tool_use" -> "ToolCalls"
      [] OTHER -> "Stop"

ErrStream(ev) ==
    ClientError("ProviderError",
                "Stream error (" \o ev.error_type \o "): " \o ev.message)

\* AnthropicStreamEvent::MessageStart
OnMessageStart(d, ev) ==
    YieldSnapshot([d EXCEPT !.current_response.usage =
                      Usage(Some(ev.input_tokens), Some(ev.output_tokens))])

\* AnthropicStreamEvent::ContentBlockStart
OnContentBlockStart(d, ev) ==
    LET b == ev.content_block
        parts == PartsOf(d)
    IN YieldSnapshot(
         CASE b.type = "text" ->
                SetParts(d, Append(parts, Text(b.text, FALSE)))
           [] b.type = "tool_use" ->
                SetParts([d EXCEPT !.tool_buffers =
                             (ev.index :> <<b.id, b.name, "">>) @@ @],
                         Append(parts, FunctionCall(Some(b.id), b.name, JNull, FALSE)))
           [] b.type = "thinking" ->
                SetParts(d, Append(parts,
                                   Reasoning(b.thinking, Some(b.signature), FALSE)))
           [] OTHER -> d)

\* the unit a delta or stop event addresses: parts.get_mut(index as usize)
GetMut(parts, index) ==
    IF index + 1 <= Len(parts) THEN Some(index + 1) ELSE None

\* AnthropicStreamEvent::ContentBlockDelta
OnContentBlockDelta(d, ev) ==
    LET parts == PartsOf(d)
        at == GetMut(parts, ev.index)
        delta == ev.delta
    IN YieldSnapshot(
         IF at = None THEN d
         ELSE LET i == at[1]
                  part == parts[i]
              IN CASE delta.type = "text_delta" ->
                        IF part.type = "Text"
                        THEN SetParts(d, [parts EXCEPT ![i].content = @ \o delta.text])
                        ELSE d
                   [] delta.type = "input_json_delta" ->
                        IF ev.index \in DOMAIN d.tool_buffers
                        THEN [d EXCEPT !.tool_buffers[ev.index][3] =
                                 @ \o delta.partial_json]
                        ELSE d
                   [] delta.type = "thinking_delta" ->
                        IF part.type = "Reasoning"
                        THEN SetParts(d, [parts EXCEPT ![i].content = @ \o delta.thinking])
                        ELSE d
                   [] delta.type = "signature_delta" ->
                        IF part.type = "Reasoning"
                        THEN SetParts(d, [parts EXCEPT ![i].signature =
                                             Some(delta.signature)])
                        ELSE d)

\* tool_buffers.remove(&index)
RemoveBuffer(buffers, index) ==
    [k \in (DOMAIN buffers) \ {index} |-> buffers[k]]

\* AnthropicStreamEvent::ContentBlockStop
OnContentBlockStop(d, ev) ==
    LET parts == PartsOf(d)
        at == GetMut(parts, ev.index)
    IN YieldSnapshot(
         IF at = None THEN d
         ELSE LET i == at[1]
                  part == parts[i]
              IN IF part.type = "FunctionCall"
                 THEN LET closed == Finish(part)
                          parsed == IF ev.index \in DOMAIN d.tool_buffers
                                    THEN JsonFromStr(d.tool_buffers[ev.index][3])
                                    ELSE Err("no buffer")
                          unit == IF parsed.kind = "Ok"
                                  THEN [closed EXCEPT !.arguments = parsed.value]
                                  ELSE closed
                      IN SetParts([d EXCEPT !.tool_buffers =
                                      RemoveBuffer(@, ev.index)],
                                  [parts EXCEPT ![i] = unit])
                 ELSE SetParts(d, [parts EXCEPT ![i] = Finish(part)]))

\* AnthropicStreamEvent::MessageDelta
OnMessageDelta(d, ev) ==
    LET d1 == IF ev.stop_reason # None
              THEN [d EXCEPT !.current_response.finish =
                       AnthropicFinish(ev.stop_reason[1])]
              ELSE d
        d2 == IF ev.usage # None
              THEN [d1 EXCEPT !.current_response.usage.completion_tokens =
                       Some(ev.usage[1])]
              ELSE d1
    IN YieldSnapshot(d2)

\* one turn of the while loop of AnthropicStream::new
AnthropicApply(d, ev) ==
    CASE ev.type = "malformed" -> Fail(d, ErrJsonParse)
      [] ev.type = "message_start" -> OnMessageStart(d, ev)
      [] ev.type = "content_block_start" -> OnContentBlockStart(d, ev)
      [] ev.type = "content_block_delta" -> OnContentBlockDelta(d, ev)
      [] ev.type = "content_block_stop" -> OnContentBlockStop(d, ev)
      [] ev.type = "message_delta" -> OnMessageDelta(d, ev)
      [] ev.type = "message_stop" -> YieldSnapshot(d)
      [] ev.type = "ping" -> Step(d, None)
      [] ev.type = "error" -> Fail(d, ErrStream(ev))

AnthropicInit ==
    /\ mode = "anthropic_stream"
    /\ AgentIdle
    /\ decoder = AnthropicStreamNew
    /\ input = <<>>
    /\ output = <<>>

AnthropicEvent ==
    /\ mode = "anthropic_stream"
    /\ decoder.state = "open"
    /\ Len(input) < MaxEvents
    /\ \E ev \in AnthropicEvents : Deliver(ev, AnthropicApply(decoder, ev))

AnthropicEnd == mode = "anthropic_stream" /\ EndOfStream

AnthropicNext ==
    \/ AnthropicEvent
    \/ AnthropicEnd

AnthropicSpec == AnthropicInit /\ [][AnthropicNext]_vars

(***************************************************************************)
(* AnthropicStream::new on the events of tool calls: blocks of indices 0   *)
(* and 1, argument fragments that do and do not add up to valid JSON, and  *)
(* a redacted_thinking block, for which the decoder creates no unit.       *)
(***************************************************************************)
MaxToolEvents == 4

AnthropicToolEvents ==
    { ContentBlockStart(0, BlockToolUse("t0", "f")),
      ContentBlockStart(1, BlockToolUse("t1", "g")),
      ContentBlockStart(0, BlockRedactedThinking),
      ContentBlockDelta(0, InputJsonDelta("{")),
      ContentBlockDelta(0, InputJsonDelta("}")),
      ContentBlockDelta(1, InputJsonDelta("{}")),
      ContentBlockStop(0),
      ContentBlockStop(1) }

AnthropicToolEvent ==
    /\ mode = "anthropic_stream"
    /\ decoder.state = "open"
    /\ Len(input) < MaxToolEvents
    /\ \E ev \in AnthropicToolEvents : Deliver(ev, AnthropicApply(decoder, ev))

AnthropicToolNext ==
    \/ AnthropicToolEvent
    \/ AnthropicEnd

AnthropicToolSpec == AnthropicInit /\ [][AnthropicToolNext]_vars

(***************************************************************************)
(* api/openai.rs: OpenAiStream::new                                        *)
(***************************************************************************)
OpenAiStreamNew ==
    [state |-> "open", current_response |-> StreamResponseNew,
     tool_index_map |-> <<>>, current_text_part_index |-> None]

\* OpenAiStreamChunk, OpenAiStreamChoice, OpenAiDelta, OpenAiStreamToolCall
OpenAiStreamChunk(choices, usage) ==
    [type |-> "chunk", choices |-> choices, usage |-> usage]
OpenAiStreamChoice(delta, finish_reason) ==
    [delta |-> delta, finish_reason |-> finish_reason]
OpenAiDelta(content, tool_calls) ==
    [content |-> content, tool_calls |-> tool_calls]
OpenAiStreamToolCall(index, id, name, arguments) ==
    [index |-> index, id |-> id,
     function |-> Some([name |-> name, arguments |-> arguments])]
OpenAiUsage(p, c) == [prompt_tokens |-> p, completion_tokens |-> c]

\* a chunk of one choice that carries tool-call deltas
ToolChunk(tool_calls) ==
    OpenAiStreamChunk(
        <<OpenAiStreamChoice(Some(OpenAiDelta(None, Some(tool_calls))), None)>>,
        None)

\* the request never asks for more than one choice: a chunk carries one
\* choice, or none when it only reports usage
OpenAiChunks ==
    { OpenAiStreamChunk(
          <<OpenAiStreamChoice(Some(OpenAiDelta(Some("a"), None)), None)>>, None),
      ToolChunk(<<OpenAiStreamToolCall(0, Some("c0"), Some("f"), None)>>),
      ToolChunk(<<OpenAiStreamToolCall(0, None, None, Some("{"))>>),
      ToolChunk(<<OpenAiStreamToolCall(0, None, None, Some("}"))>>),
      ToolChunk(<<OpenAiStreamToolCall(1, Some("c1"), Some("g"), Some("{"))>>),
      ToolChunk(<<OpenAiStreamToolCall(1, None, Some("h"), Some("}"))>>),
      ToolChunk(<<OpenAiStreamToolCall(1, None, None, Some("{}")),
                  OpenAiStreamToolCall(0, None, None, Some("{}"))>>),
      OpenAiStreamChunk(<<OpenAiStreamChoice(None, Some("tool_calls"))>>, None),
      OpenAiStreamChunk(
          <<OpenAiStreamChoice(Some(OpenAiDelta(Some("b"), None)), Some("stop"))>>,
          None),
      OpenAiStreamChunk(<<>>, Some(OpenAiUsage(2, 1))),
      OpenAiStreamChunk(<<>>, Some(OpenAiUsage(1, 0))),
      Malformed }

OpenAiFinish(finish_reason) ==
    CASE finish_reason = "stop" -> "Stop"
      [] finish_reason = "length" -> "OutputTokens"
      [] finish_reason = "tool_calls" -> "ToolCalls"
      [] finish_reason = "content_filter" -> "ContentFilter"
      [] OTHER -> "Stop"

\* if let Some(usage) = chunk_result.usage { .. }
OpenAiOnUsage(d, usage) ==
    IF usage = None THEN d
    ELSE [d EXCEPT !.current_response.usage =
             Usage(Some(usage[1].prompt_tokens), Some(usage[1].completion_tokens))]

\* mutant: every content delta opens a Text unit of its own
OpenAiOnContentPush(d, delta_content) ==
    [SetParts(d, Append(PartsOf(d), Text(delta_content, FALSE)))
        EXCEPT !.current_text_part_index = Some(Len(PartsOf(d)) + 1)]

\* if let Some(delta_content) = delta.content { .. }
OpenAiOnContent(d, delta_content) ==
    LET parts == PartsOf(d)
    IN IF d.current_text_part_index # None
       THEN LET idx == d.current_text_part_index[1]
            IN IF idx <= Len(parts) /\ parts[idx].type = "Text"
               THEN SetParts(d, [parts EXCEPT ![idx].content = @ \o delta_content])
               ELSE d
       ELSE [SetParts(d, Append(parts, Text(delta_content, FALSE)))
                EXCEPT !.current_text_part_index = Some(Len(parts) + 1)]

\* a tool call that always goes to the unit pushed last
EntryOrInsertLast(d, index) ==
    IF index \in DOMAIN d.tool_index_map
    THEN [d EXCEPT !.tool_index_map = (index :> Len(PartsOf(d))) @@ @]
    ELSE [SetParts(d, Append(PartsOf(d),
                             FunctionCall(None, "", JString(""), FALSE)))
             EXCEPT !.tool_index_map = (index :> (Len(PartsOf(d)) + 1)) @@ @]

\* tool_index_map.entry(tool_call.index).or_insert_with(|| { parts.push(..); parts.len() - 1 })
EntryOrInsert(d, index) ==
    IF index \in DOMAIN d.tool_index_map
    THEN d
    ELSE [SetParts(d, Append(PartsOf(d),
                             FunctionCall(None, "", JString(""), FALSE)))
             EXCEPT !.tool_index_map = (index :> (Len(PartsOf(d)) + 1)) @@ @]

\* one tool_call of delta.tool_calls
OpenAiOnToolCall(d, tool_call) ==
    LET d1 == EntryOrInsert(d, tool_call.index)
        idx == d1.tool_index_map[tool_call.index]
        parts == PartsOf(d1)
        part == parts[idx]
        f == tool_call.function
        p1 == IF tool_call.id # None
              THEN [part EXCEPT !.id = Some(tool_call.id[1])] ELSE part
        p2 == IF f # None /\ f[1].name # None
              THEN [p1 EXCEPT !.name = @ \o f[1].name[1]] ELSE p1
        p3 == IF f # None /\ f[1].arguments # None /\ p2.arguments.json = "string"
              THEN [p2 EXCEPT !.arguments = JString(@.text \o f[1].arguments[1])]
              ELSE p2
    IN IF part.type = "FunctionCall"
       THEN SetParts(d1, [parts EXCEPT ![idx] = p3])
       ELSE d1

RECURSIVE OpenAiOnToolCalls(_, _)
\* for tool_call in tool_calls { .. }
OpenAiOnToolCalls(d, tool_calls) ==
    IF tool_calls = <<>> THEN d
    ELSE OpenAiOnToolCalls(OpenAiOnToolCall(d, Head(tool_calls)), Tail(tool_calls))

\* the finish_reason arm, one unit
OpenAiClose(part) ==
    IF part.type = "FunctionCall" /\ part.arguments.json = "string"
    THEN LET parsed == JsonFromStr(part.arguments.text)
         IN [Finish(part) EXCEPT !.arguments =
                IF parsed.kind = "Ok" THEN parsed.value ELSE EmptyObject]
    ELSE Finish(part)

\* if let Some(finish_reason) = choice.finish_reason { .. }
OpenAiOnFinish(d, finish_reason) ==
    LET parts == PartsOf(d)
    IN [SetParts(d, [p \in 1..Len(parts) |-> OpenAiClose(parts[p])])
          EXCEPT !.current_response.finish = OpenAiFinish(finish_reason)]

\* one choice of chunk_result.choices
OpenAiOnChoice(d, choice) ==
    LET delta == choice.delta
        d1 == IF delta # None /\ delta[1].content # None
              THEN OpenAiOnContent(d, delta[1].content[1]) ELSE d
        d2 == IF delta # None /\ delta[1].tool_calls # None
              THEN OpenAiOnToolCalls(d1, delta[1].tool_calls[1]) ELSE d1
    IN IF choice.finish_reason # None
       THEN OpenAiOnFinish(d2, choice.finish_reason[1])
       ELSE d2

RECURSIVE OpenAiOnChoices(_, _)
\* for choice in chunk_result.choices { .. }
OpenAiOnChoices(d, choices) ==
    IF choices = <<>> THEN d
    ELSE OpenAiOnChoices(OpenAiOnChoice(d, Head(choices)), Tail(choices))

\* one turn of the while loop of OpenAiStream::new
OpenAiApply(d, chunk) ==
    IF chunk.type = "malformed"
    THEN Fail(d, ErrJsonParse)
    ELSE YieldSnapshot(OpenAiOnChoices(OpenAiOnUsage(d, chunk.usage), chunk.choices))

OpenAiInit ==
    /\ mode = "openai_stream"
    /\ AgentIdle
    /\ decoder = OpenAiStreamNew
    /\ input = <<>>
    /\ output = <<>>

OpenAiEvent ==
    /\ mode = "openai_stream"
    /\ decoder.state = "open"
    /\ Len(input) < MaxEvents
    /\ \E chunk \in OpenAiChunks : Deliver(chunk, OpenAiApply(decoder, chunk))

OpenAiEnd == mode = "openai_stream" /\ EndOfStream

OpenAiNext ==
    \/ OpenAiEvent
    \/ OpenAiEnd

OpenAiSpec == OpenAiInit /\ [][OpenAiNext]_vars

(***************************************************************************)
(* OpenAiStream::new on the chunks of tool calls: argument fragments that  *)
(* add up to an object, a call without arguments, a call whose argument    *)
(* text is a JSON string literal, and finish reasons.                      *)
(***************************************************************************)
OpenAiToolChunks ==
    { ToolChunk(<<OpenAiStreamToolCall(0, Some("c0"), Some("f"), Some("{"))>>),
      ToolChunk(<<OpenAiStreamToolCall(0, None, None, Some("}"))>>),
      ToolChunk(<<OpenAiStreamToolCall(1, Some("c1"), Some("g"), None)>>),
      ToolChunk(<<OpenAiStreamToolCall(2, Some("c2"), Some("h"), Some("\"{}\""))>>),
      OpenAiStreamChunk(<<OpenAiStreamChoice(None, Some("tool_calls"))>>, None),
      OpenAiStreamChunk(
          <<OpenAiStreamChoice(Some(OpenAiDelta(Some("b"), None)), Some("stop"))>>,
          None) }

OpenAiToolEvent ==
    /\ mode = "openai_stream"
    /\ decoder.state = "open"
    /\ Len(input) < MaxToolEvents
    /\ \E chunk \in OpenAiToolChunks : Deliver(chunk, OpenAiApply(decoder, chunk))

OpenAiToolNext ==
    \/ OpenAiToolEvent
    \/ OpenAiEnd

OpenAiToolSpec == OpenAiInit /\ [][OpenAiToolNext]_vars

(***************************************************************************)
(* api/gemini.rs: GeminiStream::new                                        *)
(***************************************************************************)
GeminiStreamNew ==
    [state |-> "open", current_response |-> StreamResponseNew,
     last_part_type |-> None]

\* a streamed GeminiResponse
GeminiChunk(candidates, usage_metadata) ==
    [type |-> "gemini", candidates |-> candidates,
     usage_metadata |-> usage_metadata]

\* GeminiPart::Text { thought: Some(true) } and GeminiPart::InlineData
GThought(t) == [kind |-> "thought", text |-> t]
GInlineData == [kind |-> "inlineData"]

GeminiChunks ==
    { GeminiChunk(Some(<<GCand(Some(<<GText("a")>>), None)>>), None),
      GeminiChunk(Some(<<GCand(Some(<<GThought("t")>>), None)>>), None),
      GeminiChunk(Some(<<GCand(Some(<<GCall("f")>>), None)>>), None),
      GeminiChunk(Some(<<GCand(Some(<<GCall("g"), GInlineData>>), None)>>), None),
      GeminiChunk(Some(<<GCand(Some(<<GThought("u"), GText("b")>>), None)>>), None),
      GeminiChunk(Some(<<GCand(Some(<<GText("c")>>), Some("STOP"))>>), None),
      GeminiChunk(Some(<<GCand(None, Some("MAX_TOKENS"))>>), None),
      GeminiChunk(None, GUsage(2, Some(1), Some(1))),
      GeminiChunk(None, GUsage(2, None, None)),
      Malformed }

\* if let Some(usage_meta) = chunk_result.usage_metadata { .. }
GeminiOnUsage(d, usage_metadata) ==
    IF usage_metadata = None THEN d
    ELSE [d EXCEPT !.current_response.usage = GeminiUsage(usage_metadata)]

\* a kind change that leaves the last unit open
CloseLastNever(parts, kinds) == parts

\* if let Some(last_part) = parts.last_mut() { match last_part { .. => *finished = true } }
CloseLast(parts, kinds) ==
    IF parts # <<>> /\ parts[Len(parts)].type \in kinds
    THEN [parts EXCEPT ![Len(parts)] = Finish(@)]
    ELSE parts

\* GeminiPart::Text { text, thought }
GeminiOnText(d, text, is_thought) ==
    LET current_type == IF is_thought THEN "Reasoning" ELSE "Text"
        parts0 == PartsOf(d)
        parts == IF d.last_part_type # None /\ d.last_part_type[1] # current_type
                 THEN CloseLast(parts0, {"Text", "Reasoning", "FunctionCall"})
                 ELSE parts0
        should_append ==
            /\ parts # <<>>
            /\ \/ parts[Len(parts)].type = "Text"
                    /\ ~parts[Len(parts)].finished /\ ~is_thought
               \/ parts[Len(parts)].type = "Reasoning"
                    /\ ~parts[Len(parts)].finished /\ is_thought
        parts2 == IF should_append
                  THEN [parts EXCEPT ![Len(parts)].content = @ \o text]
                  ELSE IF is_thought
                       THEN Append(parts, Reasoning(text, None, FALSE))
                       ELSE Append(parts, Text(text, FALSE))
    IN [SetParts(d, parts2) EXCEPT !.last_part_type = Some(current_type)]

\* GeminiPart::FunctionCall { function_call, .. }
GeminiOnFunctionCall(d, function_call) ==
    LET parts0 == PartsOf(d)
        parts == IF d.last_part_type # None /\ d.last_part_type[1] # "FunctionCall"
                 THEN CloseLast(parts0, {"Text", "Reasoning"})
                 ELSE parts0
    IN [SetParts(d, Append(parts, FunctionCall(None, function_call.name,
                                               function_call.args, FALSE)))
          EXCEPT !.last_part_type = Some("FunctionCall")]

\* match part { .. } of for part in &content.parts
GeminiOnPart(d, part) ==
    CASE part.kind = "text" -> GeminiOnText(d, part.text, FALSE)
      [] part.kind = "thought" -> GeminiOnText(d, part.text, TRUE)
      [] part.kind = "functionCall" -> GeminiOnFunctionCall(d, part)
      [] OTHER -> d

RECURSIVE GeminiOnParts(_, _)
\* for part in &content.parts { .. }
GeminiOnParts(d, gparts) ==
    IF gparts = <<>> THEN d
    ELSE GeminiOnParts(GeminiOnPart(d, Head(gparts)), Tail(gparts))

\* a finish reason that closes the last unit only
GeminiOnFinishLastOnly(d, finish_reason) ==
    [SetParts(d, CloseLast(PartsOf(d), {"Text", "Reasoning", "FunctionCall"}))
       EXCEPT !.current_response.finish = GeminiFinish(finish_reason)]

\* if let Some(finish_reason) = &candidate.finish_reason { .. }
GeminiOnFinish(d, finish_reason) ==
    LET parts == PartsOf(d)
    IN [SetParts(d, [p \in 1..Len(parts) |-> Finish(parts[p])])
          EXCEPT !.current_response.finish = GeminiFinish(finish_reason)]

\* if let Some(candidate) = candidates.first() { .. }
GeminiOnCandidate(d, candidate) ==
    LET d1 == IF candidate.content # None
              THEN GeminiOnParts(d, candidate.content[1]) ELSE d
    IN IF candidate.finish_reason # None
       THEN GeminiOnFinish(d1, candidate.finish_reason[1])
       ELSE d1

\* one turn of the while loop of GeminiStream::new
GeminiApply(d, chunk) ==
    IF chunk.type = "malformed"
    THEN Fail(d, ErrJsonParse)
    ELSE LET d1 == GeminiOnUsage(d, chunk.usage_metadata)
         IN YieldSnapshot(
              IF chunk.candidates # None /\ chunk.candidates[1] # <<>>
              THEN GeminiOnCandidate(d1, chunk.candidates[1][1])
              ELSE d1)

GeminiInit ==
    /\ mode = "gemini_stream"
    /\ AgentIdle
    /\ decoder = GeminiStreamNew
    /\ input = <<>>
    /\ output = <<>>

GeminiEvent ==
    /\ mode = "gemini_stream"
    /\ decoder.state = "open"
    /\ Len(input) < MaxEvents
    /\ \E chunk \in GeminiChunks : Deliver(chunk, GeminiApply(decoder, chunk))

GeminiEnd == mode = "gemini_stream" /\ EndOfStream

GeminiNext ==
    \/ GeminiEvent
    \/ GeminiEnd

GeminiSpec == GeminiInit /\ [][GeminiNext]_vars

(***************************************************************************)
(* api/openai.rs: impl From<OpenAiResponse> for Response, as applied by    *)
(* Client::request to the body of a whole response.                        *)
(***************************************************************************)
OpenAiToolCall(id, name, arguments) ==
    [id |-> id, name |-> name, arguments |-> arguments]
OpenAiResponse(content, tool_calls, finish_reason, usage) ==
    [choices |-> <<[message |-> [content |-> content, tool_calls |-> tool_calls],
                    finish_reason |-> finish_reason]>>,
     usage |-> usage]

OpenAiResponses ==
    { OpenAiResponse(Some("hi"), None, Some("stop"), Some(OpenAiUsage(2, 1))),
      OpenAiResponse(None, Some(<<OpenAiToolCall("c0", "f", "{}")>>),
                     Some("tool_calls"), None),
      OpenAiResponse(None, Some(<<OpenAiToolCall("c0", "f", "")>>),
                     Some("tool_calls"), None),
      OpenAiResponse(Some("hi"), Some(<<OpenAiToolCall("c0", "f", "{"),
                                        OpenAiToolCall("c1", "g", "{}")>>),
                     None, None) }

\* serde_json::from_str(&tool_call.function.arguments).unwrap_or(Value::Null)
OpenAiArguments(text) ==
    LET parsed == JsonFromStr(text)
    IN IF parsed.kind = "Ok" THEN parsed.value ELSE JNull

FromOpenAiResponse(resp) ==
    LET has == resp.choices # <<>>
        choice == resp.choices[1]
        text == IF has /\ choice.message.content # None
                THEN <<Text(choice.message.content[1], TRUE)>> ELSE <<>>
        tool_calls == IF has /\ choice.message.tool_calls # None
                      THEN choice.message.tool_calls[1] ELSE <<>>
        calls == [i \in 1..Len(tool_calls) |->
                    FunctionCall(Some(tool_calls[i].id), tool_calls[i].name,
                                 OpenAiArguments(tool_calls[i].arguments), TRUE)]
        finish == IF has /\ choice.finish_reason # None
                  THEN OpenAiFinish(choice.finish_reason[1]) ELSE "Stop"
        usage == IF resp.usage # None
                 THEN Usage(Some(resp.usage[1].prompt_tokens),
                            Some(resp.usage[1].completion_tokens))
                 ELSE UsageDefault
    IN Response(<<Assistant(text \o calls)>>, usage, finish)

OpenAiResponseInit ==
    /\ mode = "openai_response"
    /\ AgentIdle
    /\ decoder = [state |-> "open"]
    /\ input = <<>>
    /\ output = <<>>

\* let openai_response: OpenAiResponse = response.json_logged().await?;
\* Ok(openai_response.into())
OpenAiConvert ==
    /\ mode = "openai_response"
    /\ decoder.state = "open"
    /\ \E resp \in OpenAiResponses :
          /\ input' = <<resp>>
          /\ output' = <<[at |-> 1, item |-> Ok(FromOpenAiResponse(resp))]>>
    /\ decoder' = [state |-> "ended"]
    /\ UNCHANGED agent

(***************************************************************************)
(* All decoder paths together.                                             *)
(***************************************************************************)
DecodeInit ==
    \/ AnthropicInit
    \/ OpenAiInit
    \/ GeminiInit
    \/ OpenAiResponseInit

DecodeNext ==
    \/ AnthropicEvent
    \/ AnthropicEnd
    \/ OpenAiEvent
    \/ OpenAiEnd
    \/ GeminiEvent
    \/ GeminiEnd
    \/ OpenAiConvert

DecodeSpec == DecodeInit /\ [][DecodeNext]_vars

(***************************************************************************)
(* sse.rs: impl SSEResponseExt for reqwest::Response.  A text is a         *)
(* sequence of bytes, each written as a string: an ASCII byte as its       *)
(* character, the two bytes of a two-byte UTF-8 character as "C3", "A9".   *)
(* The unfold state is (byte_stream, buffer, stream_ended); byte_stream is *)
(* what the network has still to deliver, in chunks cut anywhere.          *)
(***************************************************************************)
\* number of chunks the network delivers a body in
MaxChunks == 3

DataPrefix == <<"d", "a", "t", "a", ":", " ">>
DoneMarker == <<"[", "D", "O", "N", "E", "]">>
LF == <<"\n">>
CRLF == <<"\r", "\n">>

\* the bodies a provider may answer with
SseBodies ==
    { DataPrefix \o <<"a">> \o LF \o LF \o DataPrefix \o <<"b">> \o LF,
      DataPrefix \o <<"a">> \o LF \o DataPrefix \o DoneMarker \o LF
         \o DataPrefix \o <<"b">> \o LF,
      <<":">> \o CRLF \o DataPrefix \o <<" ", "a", " ">> \o CRLF
         \o DataPrefix \o <<"b">>,
      DataPrefix \o LF \o DataPrefix \o <<"a">> \o LF,
      DataPrefix \o <<"C3", "A9">> \o LF }

\* std::str::from_utf8(&chunk).is_ok()
RECURSIVE Utf8Ok(_)
Utf8Ok(chunk) ==
    IF chunk = <<>> THEN TRUE
    ELSE IF Head(chunk) = "C3"
         THEN /\ Len(chunk) >= 2
              /\ chunk[2] = "A9"
              /\ Utf8Ok(Tail(Tail(chunk)))
         ELSE Head(chunk) # "A9" /\ Utf8Ok(Tail(chunk))

Whitespace == {" ", "\n", "\r", "\t"}

\* str::trim
RECURSIVE TrimStart(_)
TrimStart(s) ==
    IF s # <<>> /\ Head(s) \in Whitespace THEN TrimStart(Tail(s)) ELSE s

RECURSIVE TrimEnd(_)
TrimEnd(s) ==
    IF s # <<>> /\ s[Len(s)] \in Whitespace
    THEN TrimEnd(SubSeq(s, 1, Len(s) - 1)) ELSE s

Trim(s) == TrimEnd(TrimStart(s))

\* buffer.find('\n'): the first position of a line feed, 0 when there is none
FindLF(buffer) ==
    LET c == { i \in 1..Len(buffer) : buffer[i] = "\n" }
    IN IF c = {} THEN 0 ELSE CHOOSE i \in c : \A j \in c : i <= j

\* line.strip_prefix("data: ").map(|s| s.trim())
parse_sse_line(line) ==
    IF /\ Len(line) >= Len(DataPrefix)
       /\ SubSeq(line, 1, Len(DataPrefix)) = DataPrefix
    THEN Some(Trim(SubSeq(line, Len(DataPrefix) + 1, Len(line))))
    ELSE None

is_done_marker(data) == data = DoneMarker

SseNew(body) ==
    [state |-> "open", byte_stream |-> body, buffer |-> <<>>,
     stream_ended |-> FALSE]

\* return None
SseReturnNone(d) == Step([d EXCEPT !.state = "ended"], None)

\* lines 102-118: no complete line is left in the buffer
SseFinalLine(d) ==
    IF ~d.stream_ended THEN Step(d, None)
    ELSE LET line == Trim(d.buffer)
             data == parse_sse_line(line)
             cleared == [d EXCEPT !.buffer = <<>>]
         IN IF d.buffer # <<>> /\ line # <<>> /\ data # None
               /\ ~is_done_marker(data[1])
            THEN Step(cleared, Some(Ok(data[1])))
            ELSE SseReturnNone(cleared)

\* lines 80-99: `while let Some(pos) = buffer.find('\n')`
RECURSIVE SseLines(_)
SseLines(d) ==
    LET pos == FindLF(d.buffer) IN
    IF pos = 0 THEN SseFinalLine(d)
    ELSE LET line == Trim(SubSeq(d.buffer, 1, pos - 1))
             drained == [d EXCEPT !.buffer = SubSeq(@, pos + 1, Len(@))]
             data == parse_sse_line(line)
         IN IF line = <<>> \/ data = None THEN SseLines(drained)
            ELSE IF is_done_marker(data[1]) THEN SseReturnNone(drained)
            ELSE Step(drained, Some(Ok(data[1])))

\* mutant: a chunk replaces what the buffer held
SseOnChunkReplace(d, chunk) ==
    [d EXCEPT !.byte_stream = SubSeq(@, Len(chunk) + 1, Len(@)),
              !.buffer = IF Utf8Ok(chunk) THEN chunk ELSE @]

\* lines 62-67: Some(Ok(chunk))
SseOnChunk(d, chunk) ==
    [d EXCEPT !.byte_stream = SubSeq(@, Len(chunk) + 1, Len(@)),
              !.buffer = IF Utf8Ok(chunk) THEN @ \o chunk ELSE @]

\* the next chunk: a non-empty prefix of what is still to come, all of it
\* when it is the last chunk the network cuts
SseChunks(d) ==
    { SubSeq(d.byte_stream, 1, n) :
         n \in { m \in 1..Len(d.byte_stream) :
                    Len(input) + 1 < MaxChunks \/ m = Len(d.byte_stream) } }

SseYield(step) ==
    IF step.yielded = None THEN output
    ELSE Append(output, [at |-> Len(input'), item |-> step.yielded[1]])

SseInit ==
    /\ mode = "sse"
    /\ AgentIdle
    /\ decoder \in { SseNew(body) : body \in SseBodies }
    /\ input = <<>>
    /\ output = <<>>

\* one turn of the loop that reads a chunk
SseReadChunk ==
    /\ mode = "sse"
    /\ decoder.state = "open"
    /\ ~decoder.stream_ended
    /\ \E chunk \in SseChunks(decoder) :
          LET step == SseLines(SseOnChunk(decoder, chunk))
          IN /\ input' = Append(input, chunk)
             /\ decoder' = step.decoder
             /\ output' = SseYield(step)
    /\ UNCHANGED agent

\* one turn of the loop that finds the byte stream at its end (lines 72-75)
SseReadEnd ==
    /\ mode = "sse"
    /\ decoder.state = "open"
    /\ ~decoder.stream_ended
    /\ decoder.byte_stream = <<>>
    /\ LET step == SseLines([decoder EXCEPT !.stream_ended = TRUE])
       IN /\ input' = input
          /\ decoder' = step.decoder
          /\ output' = SseYield(step)
    /\ UNCHANGED agent

\* one turn of the loop that reads a failure of the connection (lines
\* 68-71); the rest of the body is lost
SseReadErr ==
    /\ mode = "sse"
    /\ decoder.state = "open"
    /\ ~decoder.stream_ended
    /\ decoder.byte_stream # <<>>
    /\ \E e \in TransportErrors :
          /\ input' = input
          /\ decoder' = [decoder EXCEPT !.byte_stream = <<>>]
          /\ output' = Append(output, [at |-> Len(input), item |-> Err(e)])
    /\ UNCHANGED agent

\* one turn of the loop after the byte stream ended
SseDrain ==
    /\ mode = "sse"
    /\ decoder.state = "open"
    /\ decoder.stream_ended
    /\ LET step == SseLines(decoder)
       IN /\ input' = input
          /\ decoder' = step.decoder
          /\ output' = SseYield(step)
    /\ UNCHANGED agent

SseNext ==
    \/ SseReadChunk
    \/ SseReadEnd
    \/ SseReadErr
    \/ SseDrain

SseSpec == SseInit /\ [][SseNext]_vars

(***************************************************************************)
(* Claims about the provider side.                                         *)
(***************************************************************************)
\* C16: Usage + Usage is commutative and associative; an absent field is the
\* identity (absent + N = N, N + absent = N, absent + absent = absent); two
\* present fields are summed; {prompt:10} + {} = {prompt:10} and
\* {prompt:10} + {prompt:5} = {prompt:15}.
C16_UsageMerge ==
    (mode = "usage_add" /\ output # <<>>) =>
        LET a == input[1]
            b == input[2]
            r == output[1]
            Field(u, f) == IF f = "prompt" THEN u.prompt_tokens
                           ELSE u.completion_tokens
        IN /\ r.ab = r.ba
           /\ r.ab_c = r.a_bc
           /\ UsageAdd(a, UsageDefault) = a
           /\ UsageAdd(UsageDefault, a) = a
           /\ \A f \in {"prompt", "completion"} :
                /\ (Field(a, f) = None) => (Field(r.ab, f) = Field(b, f))
                /\ (Field(b, f) = None) => (Field(r.ab, f) = Field(a, f))
                /\ (Field(a, f) # None /\ Field(b, f) # None)
                      => (Field(r.ab, f) = Some(Field(a, f)[1] + Field(b, f)[1]))
           /\ UsageAdd(Usage(Some(10), None), UsageDefault) = Usage(Some(10), None)
           /\ UsageAdd(Usage(Some(10), None), Usage(Some(5), None))
                 = Usage(Some(15), None)

\* three operands with present and absent fields have been merged
C16_Witness ==
    /\ mode = "usage_add"
    /\ output # <<>>
    /\ input[1].prompt_tokens = Some(2)
    /\ input[2].prompt_tokens = Some(1)
    /\ input[3].prompt_tokens = None
    /\ input[1].completion_tokens = None
    /\ input[2].completion_tokens = Some(1)
    /\ output[1].ab_c = Usage(Some(3), Some(1))

(***************************************************************************)
(* Reading a decoder run.                                                  *)
(***************************************************************************)
\* the units of the snapshot yielded for event k, if one was yielded
SnapshotAt(k) ==
    LET hits == { j \in 1..Len(output) :
                    output[j].at = k /\ output[j].item.kind = "Ok" }
    IN IF hits = {} THEN None
       ELSE Some(output[CHOOSE j \in hits : TRUE].item.value)

\* the units held just before event k was applied: those of the latest
\* snapshot yielded for an earlier event
PartsBefore(k) ==
    LET earlier == { j \in 1..Len(output) :
                       output[j].at < k /\ output[j].item.kind = "Ok" }
    IN IF earlier = {} THEN <<>>
       ELSE LET j == CHOOSE x \in earlier : \A y \in earlier : y <= x
            IN output[j].item.value.data[1].parts

AllFinished(parts) == \A p \in 1..Len(parts) : parts[p].finished

\* C11: in the Anthropic stream, after an event that carries a stop signal
\* (a message_delta with a stop_reason, or message_stop) every unit of the
\* snapshot yielded for it has finished = true.
C11_StopSignal(ev) ==
    \/ ev.type = "message_stop"
    \/ ev.type = "message_delta" /\ ev.stop_reason # None

C11_StopClosesAll ==
    (mode = "anthropic_stream" /\ input # <<>>
        /\ C11_StopSignal(input[Len(input)]))
    => LET snap == SnapshotAt(Len(input))
       IN snap # None /\ AllFinished(snap[1].data[1].parts)

\* C15: in the Anthropic stream, a delta or stop event with provider index i
\* changes only the unit created by the latest content_block_start with
\* index i, and does reach that unit: a stop finishes it, a text delta
\* extends a Text unit.
C15_CreatesUnit(ev) ==
    /\ ev.type = "content_block_start"
    /\ ev.content_block.type \in {"text", "tool_use", "thinking"}

\* position of the unit created by event k (a unit-creating start)
C15_PositionOf(k) ==
    Cardinality({ j \in 1..k : C15_CreatesUnit(input[j]) })

\* the unit owned by provider index i before event k: None, or its position
C15_Owner(i, k) ==
    LET starts == { j \in 1..(k - 1) :
                      input[j].type = "content_block_start" /\ input[j].index = i }
    IN IF starts = {} THEN None
       ELSE LET j == CHOOSE x \in starts : \A y \in starts : y <= x
            IN IF C15_CreatesUnit(input[j]) THEN Some(C15_PositionOf(j)) ELSE None

C15_IndexAddressing ==
    (mode = "anthropic_stream" /\ input # <<>>
        /\ input[Len(input)].type \in {"content_block_delta", "content_block_stop"})
    => LET k == Len(input)
           ev == input[k]
           owner == C15_Owner(ev.index, k)
           snap == SnapshotAt(k)
           before == PartsBefore(k)
           after == snap[1].data[1].parts
       IN /\ snap # None
          /\ Len(after) = Len(before)
          /\ \A p \in 1..Len(after) :
                (after[p] # before[p]) => (owner = Some(p))
          /\ (owner # None /\ ev.type = "content_block_stop")
                => after[owner[1]].finished
          /\ (owner # None /\ ev.type = "content_block_delta"
                /\ ev.delta.type = "text_delta"
                /\ before[owner[1]].type = "Text")
                => after[owner[1]].content = before[owner[1]].content \o ev.delta.text

\* C19: an Anthropic error event is the last event consumed; the item
\* yielded for it is the provider error and it is the last item; no snapshot
\* is yielded for it; the stream has failed, not ended.
C19_ErrorAborts ==
    mode = "anthropic_stream" =>
        \A k \in 1..Len(input) :
            (input[k].type = "error") =>
                /\ k = Len(input)
                /\ decoder.state = "failed"
                /\ output # <<>>
                /\ output[Len(output)] = [at |-> k, item |-> Err(ErrStream(input[k]))]
                /\ \A j \in 1..(Len(output) - 1) : output[j].at < k

\* an error event arrived after a snapshot had been yielded
C19_Witness ==
    /\ mode = "anthropic_stream"
    /\ Len(input) = 2
    /\ input[1].type = "content_block_start"
    /\ input[2].type = "error"
    /\ Len(output) = 2
    /\ output[1].item.kind = "Ok"
    /\ output[2].item.kind = "Err"

\* a chunk of the flat decoders that carries a finish reason
CarriesFinish(ev) ==
    CASE ev.type = "chunk" ->
           \E c \in 1..Len(ev.choices) : ev.choices[c].finish_reason # None
      [] ev.type = "gemini" ->
           /\ ev.candidates # None
           /\ ev.candidates[1] # <<>>
           /\ ev.candidates[1][1].finish_reason # None
      [] OTHER -> FALSE

\* C14: OpenAI stream: every tool-call index seen has its own unit, whose
\* name is the concatenation of that index's name fragments in arrival order
\* and whose arguments, until a finish reason arrives, are the text made of
\* that index's argument fragments in arrival order, whatever the
\* interleaving of indices.
C14_ChoiceCalls(choice) ==
    IF choice.delta # None /\ choice.delta[1].tool_calls # None
    THEN choice.delta[1].tool_calls[1]
    ELSE <<>>

RECURSIVE C14_ChunkCalls(_)
C14_ChunkCalls(choices) ==
    IF choices = <<>> THEN <<>>
    ELSE C14_ChoiceCalls(Head(choices)) \o C14_ChunkCalls(Tail(choices))

RECURSIVE C14_AllCalls(_)
\* the tool-call deltas of the first k events, in arrival order
C14_AllCalls(k) ==
    IF k = 0 THEN <<>>
    ELSE C14_AllCalls(k - 1)
         \o (IF input[k].type = "chunk" THEN C14_ChunkCalls(input[k].choices)
             ELSE <<>>)

C14_Fragment(call, i, field) ==
    LET f == call.function
        v == IF f = None THEN None
             ELSE IF field = "name" THEN f[1].name ELSE f[1].arguments
    IN IF call.index = i /\ v # None THEN v[1] ELSE ""

RECURSIVE C14_Concat(_, _, _)
C14_Concat(calls, i, field) ==
    IF calls = <<>> THEN ""
    ELSE C14_Fragment(Head(calls), i, field) \o C14_Concat(Tail(calls), i, field)

C14_IndexKeyed ==
    mode = "openai_stream" =>
        LET calls == C14_AllCalls(Len(input))
            seen == { calls[j].index : j \in 1..Len(calls) }
            map == decoder.tool_index_map
            parts == PartsOf(decoder)
            open == \A k \in 1..Len(input) : ~CarriesFinish(input[k])
        IN /\ DOMAIN map = seen
           /\ \A i \in seen, j \in seen : (i # j) => (map[i] # map[j])
           /\ \A i \in seen :
                /\ map[i] \in 1..Len(parts)
                /\ parts[map[i]].type = "FunctionCall"
                /\ parts[map[i]].name = C14_Concat(calls, i, "name")
                /\ open => parts[map[i]].arguments
                              = JString(C14_Concat(calls, i, "arguments"))

\* index 1 was seen before index 0 and received a second fragment after
\* index 0 had started
C14_Witness ==
    /\ mode = "openai_stream"
    /\ Len(input) = 3
    /\ 0 \in DOMAIN decoder.tool_index_map
    /\ 1 \in DOMAIN decoder.tool_index_map
    /\ decoder.tool_index_map[1] = 1
    /\ decoder.tool_index_map[0] = 2
    /\ PartsOf(decoder)[1].name = "gh"
    /\ PartsOf(decoder)[1].arguments = JString("{}")
    /\ PartsOf(decoder)[2].name = "f"
    /\ PartsOf(decoder)[2].arguments = JString("")

\* C13: Gemini stream: when a part's kind differs from the kind of the part
\* received before it, the unit open until then is finished before the new
\* unit is opened; a Text unit holds only non-thought text and a Reasoning
\* unit only thought text; each Text or Reasoning unit is the concatenation,
\* in arrival order, of one run of same-kind parts, a run ending at a kind
\* change or at a finish reason.
C13_CandidateTokens(candidate) ==
    LET content == IF candidate.content # None THEN candidate.content[1] ELSE <<>>
        IsUnitPart(gp) == gp.kind \in {"text", "thought", "functionCall"}
    IN SelectSeq(content, IsUnitPart)
       \o (IF candidate.finish_reason # None
           THEN <<[kind |-> "finish"]>> ELSE <<>>)

RECURSIVE C13_Tokens(_)
\* the parts received in the first k events, in arrival order, with a marker
\* where a finish reason was received
C13_Tokens(k) ==
    IF k = 0 THEN <<>>
    ELSE C13_Tokens(k - 1)
         \o (IF input[k].type = "gemini" /\ input[k].candidates # None
                /\ input[k].candidates[1] # <<>>
             THEN C13_CandidateTokens(input[k].candidates[1][1])
             ELSE <<>>)

C13_Kind(token) ==
    CASE token.kind = "text" -> "Text"
      [] token.kind = "thought" -> "Reasoning"
      [] token.kind = "functionCall" -> "FunctionCall"

RECURSIVE C13_Runs(_, _, _, _)
\* the runs of same-kind parts: units is the list of [type, text] built so
\* far, joinable tells whether the next part may extend the last run;
\* a finish reason ends the current run iff finishSplits
C13_Runs(tokens, units, joinable, finishSplits) ==
    IF tokens = <<>> THEN units
    ELSE LET t == Head(tokens)
         IN IF t.kind = "finish"
            THEN C13_Runs(Tail(tokens), units, joinable /\ ~finishSplits,
                          finishSplits)
            ELSE IF t.kind = "functionCall"
            THEN C13_Runs(Tail(tokens),
                          Append(units, [type |-> "FunctionCall", text |-> t.name]),
                          TRUE, finishSplits)
            ELSE IF joinable /\ units # <<>>
                    /\ units[Len(units)].type = C13_Kind(t)
            THEN C13_Runs(Tail(tokens),
                          [units EXCEPT ![Len(units)].text = @ \o t.text],
                          TRUE, finishSplits)
            ELSE C13_Runs(Tail(tokens),
                          Append(units, [type |-> C13_Kind(t), text |-> t.text]),
                          TRUE, finishSplits)

\* the units of the decoder, as [type, text]
C13_Units ==
    LET parts == PartsOf(decoder)
    IN [p \in 1..Len(parts) |->
          [type |-> parts[p].type,
           text |-> IF parts[p].type = "FunctionCall" THEN parts[p].name
                    ELSE parts[p].content]]

\* a unit followed by a unit of another kind, or by a second unit of text
\* of its own kind, is finished
C13_ClosedBeforeNext ==
    LET parts == PartsOf(decoder)
    IN \A p \in 1..(Len(parts) - 1) :
          (parts[p].type # parts[p + 1].type \/ parts[p].type # "FunctionCall")
             => parts[p].finished

\* the statement as written: runs are maximal, whatever came in between
C13_MaximalRuns ==
    mode = "gemini_stream" =>
        /\ C13_ClosedBeforeNext
        /\ C13_Units = C13_Runs(C13_Tokens(Len(input)), <<>>, FALSE, FALSE)

C13_KindTransition ==
    mode = "gemini_stream" =>
        /\ C13_ClosedBeforeNext
        /\ C13_Units = C13_Runs(C13_Tokens(Len(input)), <<>>, FALSE, TRUE)

\* text, thought and text again: three units, the first two closed by the
\* kind changes, the last still open
C13_Witness ==
    /\ mode = "gemini_stream"
    /\ Len(PartsOf(decoder)) = 3
    /\ PartsOf(decoder)[1] = Text("a", TRUE)
    /\ PartsOf(decoder)[2] = Reasoning("tu", None, TRUE)
    /\ PartsOf(decoder)[3] = Text("b", FALSE)

StreamModes == {"anthropic_stream", "openai_stream", "gemini_stream"}

\* the positions, in output, of the snapshots yielded
Snapshots == { j \in 1..Len(output) : output[j].item.kind = "Ok" }

C17_CounterKept(prev, cur) ==
    (prev # None) => (cur # None /\ cur[1] >= prev[1])

C17_UsageNeverShrinks ==
    mode \in StreamModes =>
        \A i \in Snapshots, j \in Snapshots :
            (i < j) =>
                LET a == output[i].item.value.usage
                    b == output[j].item.value.usage
                IN /\ C17_CounterKept(a.prompt_tokens, b.prompt_tokens)
                   /\ C17_CounterKept(a.completion_tokens, b.completion_tokens)

\* C18: in the three stream decoders, a unit that has finished = true in a
\* snapshot is the same, field for field, in every later snapshot.
C18_FinishedImmutable ==
    mode \in StreamModes =>
        \A i \in Snapshots, j \in Snapshots :
            (i < j) =>
                LET a == output[i].item.value.data[1].parts
                    b == output[j].item.value.data[1].parts
                IN \A p \in 1..Len(a) :
                      a[p].finished => (p <= Len(b) /\ b[p] = a[p])

\* C20: a tool call whose argument text is empty or not valid JSON ends up
\* finished with arguments {}: in the whole-response conversion of OpenAI
\* for every such call of the response, and in the Anthropic and OpenAI
\* streams for every finished call (its arguments are then a parsed
\* document, never null and never the raw text); no item is an error.
C20_WholeResponse ==
    mode = "openai_response" /\ output # <<>> =>
        LET message == input[1].choices[1].message
            tool_calls == IF message.tool_calls # None
                          THEN message.tool_calls[1] ELSE <<>>
            parts == output[1].item.value.data[1].parts
            calls == SelectSeq(parts, IsCall)
        IN /\ output[1].item.kind = "Ok"
           /\ Len(calls) = Len(tool_calls)
           /\ \A t \in 1..Len(tool_calls) :
                 /\ calls[t].finished
                 /\ (tool_calls[t].arguments \notin ValidJson)
                       => calls[t].arguments = EmptyObject

C20_Streams ==
    mode \in {"anthropic_stream", "openai_stream"} =>
        \A j \in Snapshots :
            LET parts == output[j].item.value.data[1].parts
            IN \A p \in 1..Len(parts) :
                  (parts[p].type = "FunctionCall" /\ parts[p].finished)
                     => parts[p].arguments.json = "document"

C20_MalformedArgsEmptyObject == C20_WholeResponse /\ C20_Streams

(***************************************************************************)
(* Reading the rounds of Agent::chat from the log: the history grows       *)
(* between the request of one round and the request of the next.           *)
(***************************************************************************)
IsUserMessage(m) == m.role = "user"

\* what chat appended to the history between its i-th and (i+1)-th request
AddedByRound(i) ==
    SubSeq(Requests[i + 1].history, Len(Requests[i].history) + 1,
           Len(Requests[i + 1].history))

\* the FunctionCall units of data, in message and part order
CallsOf(data) == SelectSeq(Flatten(data), IsCall)

\* C21: in Agent::chat, a round whose response holds n >= 1 FunctionCall
\* units appends exactly one new User message to the history, and that
\* message bundles the n FunctionResponse units in call order.
C21_OneBundledMessage ==
    mode = "chat" =>
        \A i \in 1..(Len(Requests) - 1) :
            LET calls == CallsOf(Requests[i].reply.value.data)
                users == SelectSeq(AddedByRound(i), IsUserMessage)
            IN Len(calls) >= 1 =>
                 /\ Len(users) = 1
                 /\ Len(users[1].parts) = Len(calls)
                 /\ \A k \in 1..Len(calls) :
                       /\ users[1].parts[k].type = "FunctionResponse"
                       /\ users[1].parts[k].id = calls[k].id
                       /\ users[1].parts[k].name = calls[k].name

(***************************************************************************)
(* C22 -- Tool calls of one round run one at a time, in unit order.        *)
(* Reading the log from its start: due is the sequence of FunctionCall     *)
(* units of the current round that are still to be executed (chat: the     *)
(* FunctionCall units of the response, in message and part order;          *)
(* chat_stream: the finished FunctionCall units of the last message once   *)
(* the provider stream has ended), cr the data last yielded.  Every        *)
(* call_tool is made for the first unit still due; no round starts while   *)
(* a unit is due; the call in flight is the first unit due; a round that   *)
(* completed left none due.  The tool results are in the history in the    *)
(* order of the calls.                                                     *)
(***************************************************************************)
RECURSIVE C22_InOrder(_, _, _)
C22_InOrder(i, due, cr) ==
    IF i > Len(log)
    THEN /\ pc = "call" => (due # <<>> /\ loc.call[1] = Head(due))
         /\ (pc = "request" \/ (Done /\ RunError \in {None, Some(ErrMaxIterations)}))
              => due = <<>>
    ELSE LET e == log[i] IN
         CASE e.op = "request" ->
                /\ due = <<>>
                /\ C22_InOrder(i + 1,
                               IF e.reply.kind = "Ok"
                               THEN CallsOf(e.reply.value.data) ELSE <<>>,
                               cr)
           [] e.op = "request_stream" ->
                /\ due = <<>>
                /\ C22_InOrder(i + 1, <<>>, cr)
           [] e.op = "yield" /\ e.item.kind = "Ok" ->
                C22_InOrder(i + 1, due, e.item.value.data)
           [] e.op = "stream_end" ->
                C22_InOrder(i + 1, SelectSeq(LastMessageParts(cr), Actionable), cr)
           [] e.op = "call_tool" ->
                /\ due # <<>>
                /\ e.unit = Head(due)
                /\ C22_InOrder(i + 1, Tail(due), cr)
           [] OTHER -> C22_InOrder(i + 1, due, cr)

C22_ResultsInCallOrder ==
    /\ Len(ToolResults) = Len(ToolCalls)
    /\ \A k \in 1..Len(ToolCalls) :
          ToolResults[k] = ToolResponsePart(ToolCalls[k].unit, ToolCalls[k].reply)

C22_SequentialToolCalls ==
    /\ C22_InOrder(1, <<>>, <<>>)
    /\ C22_ResultsInCallOrder

\* a round of two calls, f then g, both executed and answered differently
C22_Witness ==
    /\ pc = "request"
    /\ iteration = 1
    /\ Len(ToolCalls) = 2
    /\ ToolCalls[1].name = "f" /\ ToolCalls[1].reply.kind = "Ok"
    /\ ToolCalls[2].name = "g" /\ ToolCalls[2].reply.kind = "Err"
    /\ Len(ToolResults) = 2
    /\ ToolResults[1].name = "f" /\ ToolResults[2].name = "g"

(***************************************************************************)
(* C23 -- History ordering.  The history only grows by appending; and for  *)
(* every executed tool call, once its result is in the history, the        *)
(* result's User message lies among the messages the call's round added,   *)
(* after an Assistant message of that round holding the call, hence before *)
(* whatever the next round adds.                                           *)
(***************************************************************************)
IsPrefix(s, t) == Len(s) <= Len(t) /\ SubSeq(t, 1, Len(s)) = s

RoundOps == {"request", "request_stream"}

\* the position in the log of the first round request after i, 0 if none
NextRound(i) ==
    LET c == { j \in (i + 1)..Len(log) : log[j].op \in RoundOps }
    IN IF c = {} THEN 0 ELSE CHOOSE j \in c : \A k \in c : j <= k

HoldsPart(m, part) == \E k \in 1..Len(m.parts) : m.parts[k] = part

\* chat_stream keeps the results of the round in progress in tool_responses
C23_ResultPending(i) ==
    mode = "chat_stream" /\ pc = "call" /\ NextRound(i) = 0

C23_ResultsAfterRequest ==
    \A i \in 1..Len(log) :
        (log[i].op = "call_tool" /\ ~C23_ResultPending(i)) =>
            LET r == LastBefore(i, RoundOps)
                n == NextRound(i)
                first == Len(log[r].history) + 1
                last == IF n = 0 THEN Len(messages) ELSE Len(log[n].history)
                res == ToolResponsePart(log[i].unit, log[i].reply)
            IN /\ r > 0
               /\ \E p \in first..last : \E q \in (p + 1)..last :
                     /\ messages[p].role = "assistant"
                     /\ HoldsPart(messages[p], log[i].unit)
                     /\ messages[q].role = "user"
                     /\ HoldsPart(messages[q], res)

C23_HistoryMonotonic ==
    /\ [][IsPrefix(messages, messages')]_vars
    /\ [](\A i \in 1..Len(log) :
             log[i].op \in RoundOps => IsPrefix(log[i].history, messages))
    /\ []C23_ResultsAfterRequest

\* two rounds: the result of the first round's call lies between the
\* Assistant messages of the two rounds
C23_Witness ==
    /\ Len(ToolCalls) >= 1
    /\ Len(messages) >= 4
    /\ messages[2].role = "assistant"
    /\ messages[3].role = "user"
    /\ messages[3].parts[1].type = "FunctionResponse"
    /\ messages[4].role = "assistant"

(***************************************************************************)
(* C24 -- The tool catalogue is fetched once per call.  On an Agent with a *)
(* tool server, once chat or chat_stream has started, list_tools has been  *)
(* called exactly once, as the first call on any collaborator, and every   *)
(* transport request of the run received the catalogue it returned (the    *)
(* empty catalogue when chat_stream's fetch failed).                       *)
(***************************************************************************)
IsListTools(e) == e.op = "list_tools"

Fetched ==
    IF log[1].reply.kind = "Ok" THEN log[1].reply.value ELSE <<>>

C24_CatalogueFetchedOnce ==
    (server # None /\ pc # "start") =>
        /\ Len(SelectSeq(log, IsListTools)) = 1
        /\ IsListTools(log[1])
        /\ \A i \in 1..Len(log) :
              log[i].op \in RoundOps => log[i].tools = Fetched

\* two rounds were requested with the catalogue fetched at the start
C24_Witness ==
    /\ server # None
    /\ Len(SelectSeq(log, IsListTools)) = 1
    /\ \E i, j \in 1..Len(log) :
          /\ i < j
          /\ log[i].op \in RoundOps /\ log[j].op \in RoundOps
          /\ log[i].tools = <<"f", "g">> /\ log[j].tools = <<"f", "g">>

(***************************************************************************)
(* chat and chat_stream on the same Agent, one after the other: the caller *)
(* runs chat to its end, keeps what it returned and the calls it made, and *)
(* then runs chat_stream from the same initial history.  The Transport and *)
(* the tool server answer the second run as they answered the first: the   *)
(* provider stream of round k ends with a last snapshot equal to the       *)
(* response chat received in round k, and the k-th call of a tool gets the *)
(* reply it got in the first run.                                          *)
(***************************************************************************)
FirstRun == output[1]

FirstRequests == SelectSeq(FirstRun.log, IsRequest)

FirstToolCalls == SelectSeq(FirstRun.log, IsCallTool)

\* the number of entries of log[1..i] whose op is op
RECURSIVE CountOps(_, _)
CountOps(i, op) ==
    IF i = 0 THEN 0
    ELSE CountOps(i - 1, op) + (IF log[i].op = op THEN 1 ELSE 0)

SameTransport ==
    /\ \A e \in 1..Len(log) :
          log[e].op = "stream_end" =>
             LET k == CountOps(e, "request_stream")
                 j == LastBefore(e, {"request_stream", "stream_item"})
             IN (k <= Len(FirstRequests) /\ FirstRequests[k].reply.kind = "Ok")
                  => /\ log[j].op = "stream_item"
                     /\ log[j].reply = FirstRequests[k].reply
    /\ \A e \in 1..Len(log) :
          log[e].op = "call_tool" =>
             LET k == CountOps(e, "call_tool")
             IN (k <= Len(FirstToolCalls) /\ FirstToolCalls[k].name = log[e].name)
                  => log[e].reply = FirstToolCalls[k].reply

\* chat returned; the caller starts chat_stream on the same Agent with the
\* same initial history
Restart ==
    /\ mode = "chat"
    /\ pc = "done"
    /\ output = <<>>
    /\ output' = <<[result |-> result, log |-> log]>>
    /\ mode' = "chat_stream"
    /\ messages' = InitialMessages
    /\ current_response' = Response(<<>>, UsageDefault, "Unfinished")
    /\ tools' = <<>>
    /\ iteration' = 0
    /\ loc' = NoLoc
    /\ pc' = "start"
    /\ result' = Pending
    /\ log' = <<>>
    /\ budget' = MaxSnaps
    /\ UNCHANGED <<max_iterations, server, decoder, input>>

PairInit == ChatInit

PairNext ==
    \/ ChatStart
    \/ ChatRequest
    \/ ChatCallTool
    \/ Restart
    \/ StreamStart
    \/ StreamRequest
    \/ StreamNext
    \/ StreamEnd /\ SameTransport'
    \/ StreamCallTool /\ SameTransport'

PairSpec == PairInit /\ [][PairNext]_vars

(***************************************************************************)
(* C25 -- chat_stream has the contract of chat.  For the two runs of       *)
(* PairSpec (same initial history, tool server and max_iterations, same    *)
(* Transport), when every response chat received was one assistant message *)
(* with all units finished and chat ended in success or in the             *)
(* iteration-limit error, chat_stream ends in the same outcome, and on     *)
(* success the data of its last snapshot is the data chat returned.        *)
(***************************************************************************)
OneFinishedMessage(response) ==
    /\ Len(response.data) = 1
    /\ response.data[1].role = "assistant"
    /\ AllFinished(response.data[1].parts)

C25_Hypothesis ==
    /\ mode = "chat_stream" /\ output # <<>> /\ Done
    /\ \A k \in 1..Len(FirstRequests) :
          /\ FirstRequests[k].reply.kind = "Ok"
          /\ OneFinishedMessage(FirstRequests[k].reply.value)
    /\ \/ FirstRun.result.kind = "Ok"
       \/ FirstRun.result = Err(ErrMaxIterations)
    /\ SameTransport
    /\ \A e \in 1..Len(log) : ~IsTransportError(log[e])

\* the snapshots chat_stream yielded
OkYields == SelectSeq(Yields, LAMBDA y : y.item.kind = "Ok")

C25_SameContract ==
    C25_Hypothesis =>
        IF FirstRun.result.kind = "Ok"
        THEN /\ RunError = None
             /\ OkYields # <<>>
             /\ OkYields[Len(OkYields)].item.value.data = FirstRun.result.value.data
        ELSE RunError = Some(FirstRun.result.err)

(***************************************************************************)
(* C26 -- chat_stream termination.  Reading the rounds from the log: a     *)
(* round is a request_stream and what follows it up to the next one.       *)
(***************************************************************************)
IsRequestStream(e) == e.op = "request_stream"

StreamRequests == SelectSeq(log, IsRequestStream)

RoundStarts == { i \in 1..Len(log) : IsRequestStream(log[i]) }

\* the round that starts at log position i executed at least one tool call
RoundExecuted(i) ==
    \E j \in (i + 1)..Len(log) :
        /\ log[j].op = "call_tool"
        /\ LastBefore(j, {"request_stream"}) = i

LastRound == LastBefore(Len(log) + 1, {"request_stream"})

EveryRoundExecuted == \A i \in RoundStarts : RoundExecuted(i)

C26_Bounded == Len(StreamRequests) <= max_iterations

C26_LimitIffAllRoundsExecuted ==
    Done =>
        (RunError = Some(ErrMaxIterations)
           <=> (Len(StreamRequests) = max_iterations /\ EveryRoundExecuted))

\* the run stopped at the first round that executed no tool call
C26_StoppedAtFirstIdleRound ==
    /\ LastRound > 0
    /\ ~RoundExecuted(LastRound)
    /\ \A i \in RoundStarts \ {LastRound} : RoundExecuted(i)

\* a normal end: no error item, and the last message of the last snapshot
\* holds no actionable call
C26_NormalEnd ==
    /\ RunError = None
    /\ SelectSeq(LastMessageParts(current_response.data), Actionable) = <<>>

\* C26 as claimed: at most N stream requests, the sequence ends, it ends
\* with the iteration-limit error iff each of the N rounds executed a tool
\* call, and otherwise it ends normally at the first round without an
\* actionable call.
C26_EndsNormallyOtherwise ==
    /\ []C26_Bounded
    /\ <>Done
    /\ []C26_LimitIffAllRoundsExecuted
    /\ []((Done /\ RunError # Some(ErrMaxIterations))
            => (C26_StoppedAtFirstIdleRound /\ C26_NormalEnd))

\* the other ends: the request or an item of the last round failed, or an
\* actionable call was found on an Agent without a tool server
C26_ErrorEnd ==
    \/ /\ RunError \in { Some(e) : e \in TransportErrors }
       /\ IsTransportError(log[Len(log) - 1])
    \/ /\ RunError = Some(ErrNoServer)
       /\ server = None
       /\ SelectSeq(LastMessageParts(current_response.data), Actionable) # <<>>

\* C26 amended: as above, but a run that does not end with the
\* iteration-limit error ends at the first round without an executed tool
\* call either normally or with the transport or no-server error as its
\* last item.
C26_Termination ==
    /\ []C26_Bounded
    /\ <>Done
    /\ []C26_LimitIffAllRoundsExecuted
    /\ []((Done /\ RunError # Some(ErrMaxIterations))
            => (C26_StoppedAtFirstIdleRound /\ (C26_NormalEnd \/ C26_ErrorEnd)))

\* N rounds, each with a tool call, then the iteration-limit error
C26_Witness ==
    /\ mode = "chat_stream" /\ Done
    /\ max_iterations = MaxIter
    /\ Len(StreamRequests) = MaxIter
    /\ EveryRoundExecuted
    /\ RunError = Some(ErrMaxIterations)

(***************************************************************************)
(* C27 -- Cancellation of chat_stream.  Once the consumer has stopped      *)
(* pulling, no call is made on any collaborator any more: no item is taken *)
(* from the provider stream, no stream request is issued and no tool call  *)
(* is started or completed; the log and the state of the loop stay as they *)
(* were, and the sequence is not pulled again.                             *)
(***************************************************************************)
C27_NothingAfterDrop ==
    [][result = Dropped =>
          /\ log' = log
          /\ budget' = budget
          /\ messages' = messages
          /\ result' = Dropped]_vars

\* the consumer stopped while the provider stream still had snapshots to
\* deliver, after at least one was yielded
C27_Witness ==
    /\ result = Dropped
    /\ pc = "stream"
    /\ budget > 0
    /\ Yields # <<>>

(***************************************************************************)
(* C28 -- Anthropic stream, deferred argument parsing.  For every tool_use *)
(* block of a stream in which no index is started twice: until the         *)
(* content_block_stop of its index the FunctionCall unit is open with      *)
(* arguments null, and the input_json_delta fragments of its index         *)
(* received so far are, concatenated in arrival order, the text of the     *)
(* side buffer of that index; from that stop on the unit is finished and   *)
(* its arguments are the JSON parse of the concatenation of the fragments  *)
(* received between start and stop, or null when that text is not valid    *)
(* JSON.  No item of the stream is an error.                               *)
(***************************************************************************)
C28_IsToolUseStart(ev) ==
    ev.type = "content_block_start" /\ ev.content_block.type = "tool_use"

\* no index is started twice
C28_IndicesUnique ==
    \A j, k \in 1..Len(input) :
        (j < k /\ input[j].type = "content_block_start"
               /\ input[k].type = "content_block_start")
            => input[j].index # input[k].index

\* the position of the first content_block_stop of index i after s, or 0
C28_StopOf(s, i) ==
    LET c == { e \in (s + 1)..Len(input) :
                 input[e].type = "content_block_stop" /\ input[e].index = i }
    IN IF c = {} THEN 0 ELSE CHOOSE e \in c : \A x \in c : e <= x

\* the fragments of index i received at positions from..to, concatenated
RECURSIVE C28_Fragments(_, _, _)
C28_Fragments(i, from, to) ==
    IF from > to THEN ""
    ELSE (IF /\ input[from].type = "content_block_delta"
             /\ input[from].index = i
             /\ input[from].delta.type = "input_json_delta"
          THEN input[from].delta.partial_json ELSE "")
         \o C28_Fragments(i, from + 1, to)

C28_DeferredParsing ==
    (mode = "anthropic_stream" /\ C28_IndicesUnique) =>
        /\ \A j \in 1..Len(output) : output[j].item.kind = "Ok"
        /\ \A s \in 1..Len(input) :
              C28_IsToolUseStart(input[s]) =>
                 LET i == input[s].index
                     e == C28_StopOf(s, i)
                     unit == PartsOf(decoder)[C15_PositionOf(s)]
                 IN IF e = 0
                    THEN /\ ~unit.finished
                         /\ unit.arguments = JNull
                         /\ i \in DOMAIN decoder.tool_buffers
                         /\ decoder.tool_buffers[i][3] =
                               C28_Fragments(i, s + 1, Len(input))
                    ELSE LET text == C28_Fragments(i, s + 1, e - 1)
                         IN /\ unit.finished
                            /\ unit.arguments =
                                  (IF text \in ValidJson THEN JDoc(text) ELSE JNull)

(***************************************************************************)
(* C29 -- OpenAI stream, argument parsing at finish.  For every chunk that *)
(* carries a finish reason (none of the chunks here carries a tool-call    *)
(* delta as well): a snapshot is yielded for it, not an error; every       *)
(* FunctionCall unit that was open before it is finished in that snapshot  *)
(* with arguments the JSON parse of its accumulated argument string, or {} *)
(* when that string is empty or invalid; and every FunctionCall unit that  *)
(* an earlier finish reason had already finished keeps its arguments.      *)
(***************************************************************************)
C29_ParsedOrEmpty(text) ==
    LET parsed == JsonFromStr(text)
    IN IF parsed.kind = "Ok" THEN parsed.value ELSE EmptyObject

C29_ArgumentsAtFinish ==
    mode = "openai_stream" =>
        \A k \in 1..Len(input) :
            CarriesFinish(input[k]) =>
                LET snap == SnapshotAt(k)
                    before == PartsBefore(k)
                    after == snap[1].data[1].parts
                IN /\ snap # None
                   /\ \A p \in 1..Len(before) :
                         before[p].type = "FunctionCall" =>
                            /\ after[p].finished
                            /\ IF before[p].finished
                               THEN after[p].arguments = before[p].arguments
                               ELSE /\ before[p].arguments.json = "string"
                                    /\ after[p].arguments =
                                          C29_ParsedOrEmpty(before[p].arguments.text)

(***************************************************************************)
(* C30 -- OpenAI stream, single text unit.  In every decoder state the     *)
(* message holds no Text unit when no content delta was received, and      *)
(* otherwise exactly one, first seen in the snapshot yielded for the first *)
(* content delta, whose content is the concatenation of all content deltas *)
(* received so far in arrival order, whatever tool-call deltas arrived in  *)
(* between.                                                                *)
(***************************************************************************)
RECURSIVE C30_ChoicesContent(_)
C30_ChoicesContent(choices) ==
    IF choices = <<>> THEN ""
    ELSE (IF Head(choices).delta # None /\ Head(choices).delta[1].content # None
          THEN Head(choices).delta[1].content[1] ELSE "")
         \o C30_ChoicesContent(Tail(choices))

C30_HasContent(ev) ==
    /\ ev.type = "chunk"
    /\ \E c \in 1..Len(ev.choices) :
          ev.choices[c].delta # None /\ ev.choices[c].delta[1].content # None

\* the content deltas of events from..Len(input), concatenated
RECURSIVE C30_Content(_)
C30_Content(from) ==
    IF from > Len(input) THEN ""
    ELSE (IF input[from].type = "chunk"
          THEN C30_ChoicesContent(input[from].choices) ELSE "")
         \o C30_Content(from + 1)

C30_TextPositions(parts) == { p \in 1..Len(parts) : parts[p].type = "Text" }

C30_SingleTextUnit ==
    mode = "openai_stream" =>
        LET parts == PartsOf(decoder)
            texts == C30_TextPositions(parts)
            firsts == { k \in 1..Len(input) : C30_HasContent(input[k]) }
        IN IF firsts = {}
           THEN texts = {}
           ELSE LET k == CHOOSE x \in firsts : \A y \in firsts : x <= y
                    p == CHOOSE x \in texts : TRUE
                IN /\ Cardinality(texts) = 1
                   /\ parts[p].content = C30_Content(1)
                   /\ C30_TextPositions(PartsBefore(k)) = {}
                   /\ p = Len(PartsBefore(k)) + 1
                   /\ SnapshotAt(k) # None
                   /\ C30_TextPositions(SnapshotAt(k)[1].data[1].parts) = {p}

\* a tool-call delta arrived between two text deltas
C30_Witness ==
    /\ mode = "openai_stream"
    /\ Len(input) = 3
    /\ C30_HasContent(input[1])
    /\ input[2].type = "chunk" /\ ~C30_HasContent(input[2])
    /\ Len(PartsOf(decoder)) = 2
    /\ C30_HasContent(input[3])
    /\ PartsOf(decoder)[1].content = "ab"
    /\ PartsOf(decoder)[2].type = "FunctionCall"

(***************************************************************************)
(* C31 -- One message per snapshot.  Every snapshot yielded by the         *)
(* Anthropic, OpenAI or Gemini stream decoder holds exactly one message,   *)
(* an Assistant message, and so does the accumulator the decoder works on; *)
(* the units of a snapshot are all the units the decoder holds when it     *)
(* yields it.                                                              *)
(***************************************************************************)
C31_OneAssistant(data) == Len(data) = 1 /\ data[1].role = "assistant"

\* the snapshot yielded at the latest event, if there is one
C31_Latest ==
    IF /\ output # <<>>
       /\ output[Len(output)].at = Len(input)
       /\ output[Len(output)].item.kind = "Ok"
    THEN Some(output[Len(output)].item.value)
    ELSE None

C31_OneAssistantMessage ==
    mode \in StreamModes
    => /\ C31_OneAssistant(decoder.current_response.data)
       /\ \A k \in 1..Len(output) :
             output[k].item.kind = "Ok"
             => C31_OneAssistant(output[k].item.value.data)
       /\ C31_Latest # None
          => C31_Latest[1].data = <<Assistant(PartsOf(decoder))>>

C31_Witness ==
    /\ mode \in StreamModes
    /\ Len(output) >= 2
    /\ C31_Latest # None
    /\ Len(C31_Latest[1].data[1].parts) >= 2

(***************************************************************************)
(* C32 -- Usage totals across rounds.  In chat the accumulated usage, and  *)
(* so the usage of the Response returned, is the merge of the usage of     *)
(* every round's response, in round order.  In chat_stream the usage of    *)
(* every snapshot yielded is the merge of the usage of the last transport  *)
(* snapshot of every completed round with the usage of the latest          *)
(* transport snapshot of the current round: the partial snapshots of one   *)
(* round are never summed with each other.                                 *)
(***************************************************************************)
\* the merge of the usage of the responses of requests, in order
RECURSIVE C32_ChatTotal(_)
C32_ChatTotal(requests) ==
    IF requests = <<>> THEN UsageDefault
    ELSE LET n == Len(requests)
             earlier == C32_ChatTotal(SubSeq(requests, 1, n - 1))
         IN IF requests[n].reply.kind = "Ok"
            THEN UsageAdd(earlier, requests[n].reply.value.usage)
            ELSE earlier

\* the log from entry i on, read with done = the merge over the completed
\* rounds and cur = the usage of the current round's latest snapshot
RECURSIVE C32_StreamTotals(_, _, _)
C32_StreamTotals(i, done, cur) ==
    IF i > Len(log) THEN TRUE
    ELSE LET e == log[i] IN
         CASE e.op = "request_stream" ->
                 C32_StreamTotals(i + 1, UsageAdd(done, cur), UsageDefault)
           [] e.op = "stream_item" /\ e.reply.kind = "Ok" ->
                 C32_StreamTotals(i + 1, done, e.reply.value.usage)
           [] e.op = "yield" /\ e.item.kind = "Ok" ->
                 /\ e.item.value.usage = UsageAdd(done, cur)
                 /\ C32_StreamTotals(i + 1, done, cur)
           [] OTHER -> C32_StreamTotals(i + 1, done, cur)

C32_UsageTotals ==
    /\ mode = "chat"
       => LET total == C32_ChatTotal(Requests)
          IN /\ current_response.usage = total
             /\ result.kind = "Ok" => result.value.usage = total
    /\ mode = "chat_stream"
       => C32_StreamTotals(1, UsageDefault, UsageDefault)

\* chat_stream: two snapshots with counters in the first round, and a
\* snapshot with counters in the second
C32_Witness ==
    /\ mode = "chat_stream"
    /\ \E i, j, k, l \in 1..Len(log) :
          /\ i < j /\ j < k /\ k < l
          /\ log[i].op = "stream_item" /\ log[i].reply.kind = "Ok"
          /\ log[i].reply.value.usage.prompt_tokens # None
          /\ log[j].op = "stream_item" /\ log[j].reply.kind = "Ok"
          /\ log[j].reply.value.usage.prompt_tokens # None
          /\ \A m \in i..j : log[m].op # "request_stream"
          /\ log[k].op = "request_stream"
          /\ log[l].op = "stream_item" /\ log[l].reply.kind = "Ok"
          /\ log[l].reply.value.usage.prompt_tokens # None

(***************************************************************************)
(* C33 -- A call still streaming at round end is not actionable.  In       *)
(* chat_stream, when the last snapshot of a round holds FunctionCall units *)
(* and none of them is finished, the run ends normally after that round:   *)
(* no tool is called, no tool-result message is appended or yielded, no    *)
(* further stream request is made and no error is reported.                *)
(***************************************************************************)
C33_NoFinishedCall(data) ==
    /\ HasCall(data)
    /\ \A q \in CallPositions(data) : ~data[q[1]].parts[q[2]].finished

\* the provider stream ended at log entry i, and the last snapshot of that
\* round holds only unfinished calls
C33_OpenCallsAtRoundEnd(i) ==
    /\ log[i].op = "stream_end"
    /\ LET k == LastBefore(i, {"stream_item", "request_stream"})
       IN /\ k > 0
          /\ log[k].op = "stream_item"
          /\ log[k].reply.kind = "Ok"
          /\ C33_NoFinishedCall(log[k].reply.value.data)

C33_OpenCallsEndRun ==
    mode = "chat_stream"
    => \A i \in 1..Len(log) :
          C33_OpenCallsAtRoundEnd(i)
          => LET k == LastBefore(i, {"stream_item"})
                 r == LastBefore(i, {"request_stream"})
             IN /\ i = Len(log)
                /\ Done
                /\ RunError = None
                /\ \A j \in r..i : log[j].op # "call_tool"
                /\ Yields[Len(Yields)] = log[k + 1]
                /\ current_response = log[k + 1].item.value
                /\ messages = log[r].history \o log[k].reply.value.data

C33_Witness ==
    /\ mode = "chat_stream"
    /\ \E i \in 1..Len(log) : C33_OpenCallsAtRoundEnd(i)
    /\ Len(StreamRequests) = 2
    /\ max_iterations >= 2 /\ iteration < max_iterations

(***************************************************************************)
(* C34 -- What chat_stream yields.  Every snapshot received from the       *)
(* provider stream is followed at once by one snapshot yielded to the      *)
(* caller, which ends with the messages received; the only other snapshot  *)
(* yielded is the one that adds the tool-result message, once at the end   *)
(* of each round in which a tool was called, after the last call of that   *)
(* round; an error is yielded last, and nothing else is yielded.           *)
(***************************************************************************)
C34_IsSnapshotIn(e) == e.op = "stream_item" /\ e.reply.kind = "Ok"

C34_IsSnapshotOut(e) == e.op = "yield" /\ e.item.kind = "Ok"

C34_IsErrorOut(e) == e.op = "yield" /\ e.item.kind = "Err"

\* yielded data ends with the messages of received
C34_EndsWith(yielded, received) ==
    /\ Len(yielded) >= Len(received)
    /\ SubSeq(yielded, Len(yielded) - Len(received) + 1, Len(yielded)) = received

C34_IsToolResultMessage(m) ==
    /\ m.role = "user"
    /\ m.parts # <<>>
    /\ \A p \in 1..Len(m.parts) : m.parts[p].type = "FunctionResponse"

C34_YieldsExactly ==
    mode = "chat_stream"
    => \A i \in 1..Len(log) :
          /\ C34_IsSnapshotIn(log[i])
             => /\ i < Len(log)
                /\ C34_IsSnapshotOut(log[i + 1])
                /\ C34_EndsWith(log[i + 1].item.value.data, log[i].reply.value.data)
          /\ C34_IsSnapshotOut(log[i])
             => /\ i > 1
                /\ \/ C34_IsSnapshotIn(log[i - 1])
                   \/ /\ log[i - 1].op = "call_tool"
                      /\ C34_IsToolResultMessage(
                            log[i].item.value.data[Len(log[i].item.value.data)])
                      /\ i < Len(log)
                         => \/ log[i + 1].op = "request_stream"
                            \/ C34_IsErrorOut(log[i + 1])
          /\ log[i].op = "call_tool"
             => IF i = Len(log) THEN pc = "call"
                ELSE \/ log[i + 1].op = "call_tool"
                     \/ C34_IsSnapshotOut(log[i + 1])
          /\ C34_IsErrorOut(log[i]) => i = Len(log) /\ Done

\* two snapshots passed on in one round, and a tool-result snapshot after
\* two tool calls
C34_Witness ==
    /\ mode = "chat_stream"
    /\ \E i \in 1..Len(log) :
          /\ i + 7 <= Len(log)
          /\ C34_IsSnapshotIn(log[i])
          /\ C34_IsSnapshotIn(log[i + 2])
          /\ log[i + 4].op = "stream_end"
          /\ log[i + 5].op = "call_tool"
          /\ log[i + 6].op = "call_tool"
          /\ C34_IsSnapshotOut(log[i + 7])

(***************************************************************************)
(* C35 -- The history is the conversation so far.  Whenever chat or        *)
(* chat_stream issues a transport request, the history it passes is the    *)
(* caller's initial messages followed by exactly the messages of the       *)
(* accumulated output at that moment: the assistant messages and the       *)
(* tool-result messages of every earlier round.                            *)
(***************************************************************************)
C35_IsTransportRequest(e) == e.op \in {"request", "request_stream"}

C35_HistoryIsOutput ==
    [][\A k \in (Len(log) + 1)..Len(log') :
          C35_IsTransportRequest(log'[k])
          => log'[k].history = InitialMessages \o current_response.data]_vars

\* a stream request of the second round, after a round that called a tool
C35_Witness ==
    /\ mode = "chat_stream"
    /\ \E k \in 1..Len(log) :
          /\ C35_IsTransportRequest(log[k])
          /\ Len(log[k].history) = 3
          /\ log[k].history[2].role = "assistant"
          /\ C34_IsToolResultMessage(log[k].history[3])
          /\ current_response.data = SubSeq(log[k].history, 2, 3)

(***************************************************************************)
(* Reading a run of the SSE framer.                                        *)
(***************************************************************************)
RECURSIVE SseConcat(_)
SseConcat(chunks) ==
    IF chunks = <<>> THEN <<>> ELSE Head(chunks) \o SseConcat(Tail(chunks))

\* the bytes received so far
SseReceived == SseConcat(input)

\* the payloads yielded so far
SsePayloads ==
    LET oks == SelectSeq(output, LAMBDA o : o.item.kind = "Ok")
    IN [k \in 1..Len(oks) |-> oks[k].item.value]

SseEnded == decoder.state = "ended"

(***************************************************************************)
(* C36 -- SSE framing.  The payloads yielded are, in arrival order, the    *)
(* payloads of the `data: ` lines received before the first                *)
(* `data: [DONE]` line; nothing is yielded after that line; without it the *)
(* stream ends when the bytes end, a final line without a line feed        *)
(* included.                                                               *)
(***************************************************************************)
\* the lines of text: the runs of bytes between line feeds
RECURSIVE C36_Lines(_)
C36_Lines(text) ==
    LET pos == FindLF(text) IN
    IF pos = 0 THEN (IF text = <<>> THEN <<>> ELSE <<text>>)
    ELSE <<SubSeq(text, 1, pos - 1)>> \o C36_Lines(SubSeq(text, pos + 1, Len(text)))

C36_IsDataLine(line) ==
    /\ Len(line) >= Len(DataPrefix)
    /\ SubSeq(line, 1, Len(DataPrefix)) = DataPrefix

C36_Payload(line) == Trim(SubSeq(line, Len(DataPrefix) + 1, Len(line)))

\* the payloads of the data lines among lines, up to the first [DONE]
RECURSIVE C36_Expected(_)
C36_Expected(lines) ==
    IF lines = <<>> THEN <<>>
    ELSE IF ~C36_IsDataLine(Head(lines)) THEN C36_Expected(Tail(lines))
    ELSE IF C36_Payload(Head(lines)) = DoneMarker THEN <<>>
    ELSE <<C36_Payload(Head(lines))>> \o C36_Expected(Tail(lines))

C36_Framing ==
    mode = "sse"
    => /\ IsPrefix(SsePayloads, C36_Expected(C36_Lines(SseReceived)))
       /\ SseEnded => SsePayloads = C36_Expected(C36_Lines(SseReceived))

(***************************************************************************)
(* C40 -- Chunk-boundary independence.  For a body of ASCII bytes received *)
(* whole, however the network cut it into chunks, also inside a line or    *)
(* inside the `data: ` prefix, the payloads yielded are those yielded when *)
(* the same body arrives as a single chunk.                                *)
(***************************************************************************)
C40_IsAscii(text) == \A i \in 1..Len(text) : text[i] \notin {"C3", "A9"}

\* the payloads yielded from d on, added to out, when no more bytes come
RECURSIVE C40_Run(_, _)
C40_Run(d, out) ==
    IF d.state = "ended" THEN out
    ELSE LET step == SseLines([d EXCEPT !.stream_ended = TRUE])
         IN C40_Run(step.decoder,
                    IF step.yielded = None THEN out
                    ELSE Append(out, step.yielded[1].value))

\* the payloads yielded when body arrives as one chunk
C40_SingleChunk(body) ==
    LET step == SseLines(SseOnChunk(SseNew(body), body))
    IN C40_Run(step.decoder,
               IF step.yielded = None THEN <<>> ELSE <<step.yielded[1].value>>)

C40_NoFailure == \A k \in 1..Len(output) : output[k].item.kind = "Ok"

\* the body of the response: what was received and what is still to come
C40_Body == SseReceived \o decoder.byte_stream

C40_ChunkIndependence ==
    (mode = "sse" /\ C40_NoFailure /\ C40_IsAscii(C40_Body))
    => /\ IsPrefix(SsePayloads, C40_SingleChunk(C40_Body))
       /\ SseEnded => SsePayloads = C40_SingleChunk(C40_Body)

\* a body cut inside the `data: ` prefix and again inside a later line
C40_Witness ==
    /\ mode = "sse" /\ C40_NoFailure /\ C40_IsAscii(C40_Body) /\ SseEnded
    /\ Len(input) = MaxChunks
    /\ input[1] = SubSeq(DataPrefix, 1, 3)
    /\ FindLF(input[2]) # 0
    /\ input[2][Len(input[2])] # "\n"
    /\ Len(SsePayloads) = 2

(***************************************************************************)
(* C37 -- Every FunctionCall is answered.  At every transport request from *)
(* round 2 on, each FunctionCall unit of each Assistant message of the     *)
(* history passed has exactly one FunctionResponse unit carrying its id    *)
(* (and its name) in the User messages that directly follow that           *)
(* Assistant message.                                                      *)
(***************************************************************************)
\* the units of the User messages that directly follow message a of history
RECURSIVE C37_Following(_, _)
C37_Following(history, a) ==
    IF a + 1 > Len(history) \/ history[a + 1].role # "user" THEN <<>>
    ELSE history[a + 1].parts \o C37_Following(history, a + 1)

C37_Answers(call, units) ==
    SelectSeq(units, LAMBDA u : /\ u.type = "FunctionResponse"
                                /\ u.id = call.id
                                /\ u.name = call.name)

C37_AllAnswered(history) ==
    \A a \in 1..Len(history) :
       history[a].role = "assistant"
       => \A p \in 1..Len(history[a].parts) :
             IsCall(history[a].parts[p])
             => Len(C37_Answers(history[a].parts[p],
                                C37_Following(history, a))) = 1

\* the transport requests of the run, in order
C37_Rounds == SelectSeq(log, C35_IsTransportRequest)

C37_Key(units) == [k \in 1..Len(units) |-> <<units[k].id, units[k].name>>]

\* the FunctionCall units of message a of history that were executed
C37_Executed(history, a) ==
    IF mode = "chat" THEN SelectSeq(history[a].parts, IsCall)
    ELSE IF C37_Following(history, a) # <<>>
         THEN SelectSeq(history[a].parts, Actionable)
         ELSE <<>>

\* the number of tool calls logged before entry i
C37_ToolCallsBefore(i) == Cardinality({ j \in 1..(i - 1) : log[j].op = "call_tool" })

C37_RequestAt(r) ==
    CHOOSE i \in 1..Len(log) :
       /\ C35_IsTransportRequest(log[i])
       /\ Cardinality({ j \in 1..i : C35_IsTransportRequest(log[j]) }) = r

C37_ExecutedAnswered(history) ==
    \A a \in 1..Len(history) :
       history[a].role = "assistant"
       => C37_Key(SelectSeq(C37_Following(history, a), IsFunctionResponse))
          = C37_Key(C37_Executed(history, a))

C38_ListToolsFails == server # None /\ server[1].kind = "Err"

C38_ListToolsFailure ==
    (C38_ListToolsFails /\ pc # "start")
    => /\ log[1] = LogListTools(server[1])
       /\ mode = "chat"
          => /\ Done
             /\ result = Err(ErrListTools(server[1].err))
             /\ Len(log) = 1
       /\ mode = "chat_stream"
          => /\ \A k \in 1..Len(Yields) :
                   Yields[k].item.kind = "Err"
                   => Yields[k].item.err.variant # "ProviderError"
             /\ \A k \in 1..Len(StreamRequests) : StreamRequests[k].tools = <<>>
             /\ (max_iterations > 0 /\ pc # "request")
                => Len(StreamRequests) >= 1

\* chat_stream after a failed list_tools: two stream requests, a tool called
C38_Witness ==
    /\ C38_ListToolsFails
    /\ mode = "chat_stream"
    /\ Len(StreamRequests) = 2
    /\ StreamRequests[2].tools = <<>>
    /\ ToolCalls # <<>>

(***************************************************************************)
(* C39 -- The iteration limit is reported after the last round's tools.    *)
(* When chat or chat_stream ends with the iteration-limit error, exactly   *)
(* max_iterations transport requests were made and in every round, the     *)
(* last one included, every actionable FunctionCall unit was executed and  *)
(* there was at least one; in chat_stream the item yielded just before the *)
(* error is the last round's tool-result snapshot.  With                   *)
(* max_iterations = 0 the error comes without any transport request or     *)
(* tool call.                                                              *)
(***************************************************************************)
C39_LimitReached == Done /\ RunError = Some(ErrMaxIterations)

\* the log entries of the round whose request is entry i: from the request
\* up to the next request
C39_RoundFrom(i) ==
    LET later == { j \in (i + 1)..Len(log) : C35_IsTransportRequest(log[j]) }
        to == IF later = {} THEN Len(log)
              ELSE (CHOOSE j \in later : \A k \in later : j <= k) - 1
    IN SubSeq(log, i, to)

\* the log entries of round r
C39_RoundEntries(r) == C39_RoundFrom(C37_RequestAt(r))

\* the number of FunctionCall units round r had to execute
C39_Due(entries) ==
    IF mode = "chat"
    THEN Cardinality(CallPositions(entries[1].reply.value.data))
    ELSE LET snaps == SelectSeq(entries, C34_IsSnapshotIn)
         IN IF snaps = <<>> THEN 0
            ELSE Len(SelectSeq(LastMessageParts(snaps[Len(snaps)].reply.value.data),
                               Actionable))

C39_LimitAfterLastRound ==
    C39_LimitReached
    => /\ Cardinality({ i \in 1..Len(log) : C35_IsTransportRequest(log[i]) })
          = max_iterations
       /\ \A i \in { j \in 1..Len(log) : C35_IsTransportRequest(log[j]) } :
             LET entries == C39_RoundFrom(i)
                 made == Len(SelectSeq(entries, IsCallTool))
             IN /\ entries[1].reply.kind = "Ok"
                /\ made >= 1
                /\ made = C39_Due(entries)
       /\ max_iterations = 0 => \A k \in 1..Len(log) :
                                   log[k].op \in {"list_tools", "yield"}
       /\ (mode = "chat_stream" /\ max_iterations > 0)
          => /\ C34_IsSnapshotOut(log[Len(log) - 1])
             /\ log[Len(log) - 2].op = "call_tool"
             /\ C34_IsToolResultMessage(
                   log[Len(log) - 1].item.value.data[
                      Len(log[Len(log) - 1].item.value.data)])

\* chat_stream: MaxIter rounds, two tools called in the last one
C39_Witness ==
    /\ C39_LimitReached
    /\ mode = "chat_stream"
    /\ max_iterations = MaxIter
    /\ Len(SelectSeq(C39_RoundEntries(MaxIter), IsCallTool)) = 2

=============================================================================
